---- MODULE Spec2Model ----
(***************************************************************************)
(* BrowseMate side panel: the relevance extractor (pickRelevantSnippets), *)
(* the context compiler (compileMessagesForGemini) and the panel's        *)
(* storage operations (ingest, send, remove source) as state machines.    *)
(*                                                                         *)
(* A JavaScript string is modelled as a sequence of one-character         *)
(* strings; offsets are 0-based as in the source and converted to the     *)
(* 1-based indices of Sequences only inside slice and indexOf.            *)
(***************************************************************************)
EXTENDS Integers, Sequences, FiniteSets, Bags, TLC

VARIABLES
  \* relevance extractor: inputs, position and result
  query, markdown, perHitChars, maxChars, out, xpc,
  \* context compiler: the turn sequence, the turns appended so far,
  \* position and result
  messages, appended, compiled, cpc,
  \* chrome.storage.local: the bm_sessions map and the bm_api_key value
  store, apiKey,
  \* the value of bm_active_session_id in chrome.storage.local
  activeId,
  \* the panel object and its DOM: currentSessionId, isLoading, the disabled
  \* flags of the ingest button and the input, the rendered sources list
  currentSessionId, isLoading, ingestBtnDisabled, inputDisabled, view,
  \* the running handlers: ingestCurrentPage, sendMessage, the remove-source
  \* click handler and saveSettings, each with its position and locals
  ing, snd, rem, cfg,
  \* callGemini: its arguments, position, the attempt number of
  \* retryWithBackoff, the requests made with their outcomes, the delays
  \* waited, and how the call settled
  callArgs, rpc, attempt, requests, delays, settled,
  \* parseGeminiResponse: its argument and its outcome
  response, parsed,
  \* createSession: the clock that Date.now() reads, in milliseconds, and
  \* the running calls, each with its position and locals
  now, crt,
  \* handleFileImport: the running imports, each with its position, the
  \* parsed content of its file and the sessions value it writes
  imp,
  \* the session ids that the session dropdown offers (loadSessions)
  options,
  \* switchSession of the dropdown: the session ids whose
  \* setCurrentSessionId is in flight
  swt,
  \* the storage calls issued by a page that has been unloaded since and not
  \* completed yet, each as often as it was issued: the bm_sessions values of
  \* saveSession's set (saves), the ids of setCurrentSessionId's set
  \* (switches), the updates of migrateFromCedric's set (sets), the number of
  \* clear() (clears); the number of pages unloaded so far (unloads)
  orphans,
  \* location.reload() has been called and the page has not been replaced yet
  reloading,
  \* migrateFromCedric: the values under the cedric_* keys, and the running
  \* migrations, each with its position and its updates
  cedric, mig

xvars == <<query, markdown, perHitChars, maxChars, out, xpc>>
cvars == <<messages, appended, compiled, cpc>>
svars == <<store, apiKey, activeId>>
uvars == <<currentSessionId, isLoading, ingestBtnDisabled, inputDisabled, view>>
hvars == <<ing, snd, rem, cfg>>
pvars == <<svars, uvars, hvars>>
gvars == <<callArgs, rpc, attempt, requests, delays, settled, response, parsed>>
mvars == <<cedric, mig, orphans, reloading>>
kvars == <<now, crt, imp, options, mvars, swt>>
vars == <<xvars, cvars, pvars, gvars, kvars>>

----------------------------------------------------------------------------
(* Bounds of the input sets *)

MaxDocPieces == 3
MaxQueryPieces == 2
MaxAppend == 6
MaxCtxTurns == 3
MaxIngests == 2
MaxSends == 1
MaxRemoves == 1
MaxSettingsSaves == 1
MaxUrls == 1
MaxSendPresses == 2
MaxSparseTurns == 2
MaxCreates == 2
MaxClock == 2
MaxImports == 2
MaxMigrations == 1
MaxPendingSwitches == 1
MaxPendingClears == 1
MaxReloads == 2

----------------------------------------------------------------------------
(* JavaScript string and number primitives *)

Min2(a, b) == IF a < b THEN a ELSE b
Max2(a, b) == IF a > b THEN a ELSE b

UPPER == <<"A","B","C","D","E","F","G","H","I","J","K","L","M",
           "N","O","P","Q","R","S","T","U","V","W","X","Y","Z">>
LOWER == <<"a","b","c","d","e","f","g","h","i","j","k","l","m",
           "n","o","p","q","r","s","t","u","v","w","x","y","z">>
DIGITS == {"0","1","2","3","4","5","6","7","8","9"}
UpperSet == {UPPER[i] : i \in 1..26}
LowerSet == {LOWER[i] : i \in 1..26}

\* String.prototype.toLowerCase on one ASCII character
toLowerCaseChar(c) ==
  IF c \in UpperSet THEN LOWER[CHOOSE i \in 1..26 : UPPER[i] = c] ELSE c

\* String.prototype.toLowerCase
toLowerCase(s) == [i \in 1..Len(s) |-> toLowerCaseChar(s[i])]

\* String.prototype.slice(a, b): negative offsets count from the end,
\* offsets are clamped to the string, an empty range gives ''
slice(s, a, b) ==
  LET n    == Len(s)
      from == IF a < 0 THEN Max2(n + a, 0) ELSE Min2(a, n)
      to   == IF b < 0 THEN Max2(n + b, 0) ELSE Min2(b, n)
  IN IF to <= from THEN <<>> ELSE SubSeq(s, from + 1, to)

\* String.prototype.indexOf(t, from): least 0-based offset >= from at which
\* t occurs in s, -1 when there is none
indexOf(s, t, from) ==
  LET cands == {i \in Max2(from, 0)..(Len(s) - Len(t)) :
                  SubSeq(s, i + 1, i + Len(t)) = t}
  IN IF cands = {} THEN -1
     ELSE CHOOSE i \in cands : \A j \in cands : i <= j

\* String.prototype.includes
includes(s, t) == indexOf(s, t, 0) # -1

----------------------------------------------------------------------------
(* The regular expression /\b[\w.-]{3,}\b/g of pickRelevantSnippets *)

\* \w
IsWordChar(c) == c \in UpperSet \/ c \in LowerSet \/ c \in DIGITS \/ c = "_"

\* [\w.-]
InTermClass(c) == IsWordChar(c) \/ c = "." \/ c = "-"

\* \b at 0-based offset k of s: exactly one side is a word character
WordBoundary(s, k) ==
  LET before == k >= 1 /\ k <= Len(s) /\ IsWordChar(s[k])
      after  == k >= 0 /\ k < Len(s) /\ IsWordChar(s[k + 1])
  IN before # after

\* lengths of the matches of \b[\w.-]{3,}\b that start at offset i
MatchLengthsAt(s, i) ==
  {n \in 3..(Len(s) - i) :
     /\ WordBoundary(s, i)
     /\ \A j \in 1..n : InTermClass(s[i + j])
     /\ WordBoundary(s, i + n)}

\* the quantifier is greedy: the longest match at i is taken
GreedyLengthAt(s, i) ==
  LET ls == MatchLengthsAt(s, i)
  IN IF ls = {} THEN 0 ELSE CHOOSE n \in ls : \A m \in ls : m <= n

RECURSIVE matchTerms(_, _)
\* String.prototype.match with the g flag, scanning from offset pos:
\* leftmost match, then continue after it
matchTerms(s, pos) ==
  IF pos > Len(s) - 3 THEN <<>>
  ELSE LET n == GreedyLengthAt(s, pos)
       IN IF n = 0 THEN matchTerms(s, pos + 1)
          ELSE <<SubSeq(s, pos + 1, pos + n)>> \o matchTerms(s, pos + n)

----------------------------------------------------------------------------
(* pickRelevantSnippets *)

MERGE_GAP == 50
MAX_TERMS == 12
MARKER == <<"\n", ".", ".", ".", "\n">>

\* terms = (query.toLowerCase().match(re) || []).slice(0, 12)
queryTerms(q) == slice(matchTerms(toLowerCase(q), 0), 0, MAX_TERMS)

RECURSIVE scanTerm(_, _, _, _, _)
\* the while loop over one term: a window per non-overlapping occurrence
scanTerm(text, lc, term, idx, perHit) ==
  LET i == indexOf(lc, term, idx)
  IN IF i = -1 THEN <<>>
     ELSE LET start == Max2(0, i - (perHit \div 2))
              end   == Min2(Len(text), i + Len(term) + (perHit \div 2))
          IN <<<<start, end>>>> \o scanTerm(text, lc, term, i + Len(term), perHit)

RECURSIVE collectHits(_, _, _, _)
\* the for loop over the terms, in query order
collectHits(text, lc, terms, perHit) ==
  IF terms = <<>> THEN <<>>
  ELSE scanTerm(text, lc, Head(terms), 0, perHit)
         \o collectHits(text, lc, Tail(terms), perHit)

\* insert x behind every element whose start is <= x's start (stable)
insertHit(sorted, x) ==
  LET k == Cardinality({i \in 1..Len(sorted) : sorted[i][1] <= x[1]})
  IN SubSeq(sorted, 1, k) \o <<x>> \o SubSeq(sorted, k + 1, Len(sorted))

RECURSIVE sortHits(_)
\* hits.sort((a,b) => a[0]-b[0])
sortHits(h) ==
  IF h = <<>> THEN <<>>
  ELSE insertHit(sortHits(SubSeq(h, 1, Len(h) - 1)), h[Len(h)])

RECURSIVE mergeHitsOverlapOnly(_, _)
\* the merge loop without the gap: only a window that starts inside the last
\* merged one extends it
mergeHitsOverlapOnly(hits, merged) ==
  IF hits = <<>> THEN merged
  ELSE LET h == Head(hits)
           n == Len(merged)
       IN IF n = 0 \/ h[1] > merged[n][2]
          THEN mergeHitsOverlapOnly(Tail(hits), Append(merged, h))
          ELSE mergeHitsOverlapOnly(Tail(hits),
                                    [merged EXCEPT ![n] = <<@[1], Max2(@[2], h[2])>>])

RECURSIVE mergeHits(_, _)
\* the merge loop: a window starting within MERGE_GAP of the end of the
\* last merged one extends it, any other starts a new one
mergeHits(hits, merged) ==
  IF hits = <<>> THEN merged
  ELSE LET h == Head(hits)
           n == Len(merged)
       IN IF n = 0 \/ h[1] > merged[n][2] + MERGE_GAP
          THEN mergeHits(Tail(hits), Append(merged, h))
          ELSE mergeHits(Tail(hits),
                         [merged EXCEPT ![n] = <<@[1], Max2(@[2], h[2])>>])

RECURSIVE emitWindows(_, _, _, _, _)
\* the output loop: each window cut to perHitChars and followed by the
\* marker, stopping once out has reached maxChars
emitWindows(text, merged, acc, perHit, maxC) ==
  IF merged = <<>> \/ Len(acc) >= maxC THEN acc
  ELSE LET s == merged[1][1]
           e == merged[1][2]
       IN emitWindows(text, Tail(merged),
                      acc \o slice(text, s, Min2(e, s + perHit)) \o MARKER,
                      perHit, maxC)

mergedWindows(q, md, perHit) ==
  mergeHits(sortHits(collectHits(md, toLowerCase(md), queryTerms(q), perHit)), <<>>)

\* mutant: the final out.slice(0, maxChars) is left out
pickRelevantSnippetsUncut(q, md, perHit, maxC) ==
  IF md = <<>> THEN <<>>
  ELSE LET terms == queryTerms(q)
       IN IF terms = <<>> THEN slice(md, 0, maxC)
          ELSE LET hits == collectHits(md, toLowerCase(md), terms, perHit)
               IN IF hits = <<>> THEN slice(md, 0, maxC)
                  ELSE emitWindows(md, mergeHits(sortHits(hits), <<>>),
                                   <<>>, perHit, maxC)

\* mutant: a query without terms returns the whole document
pickRelevantSnippetsWholeDoc(q, md, perHit, maxC) ==
  IF md = <<>> THEN <<>>
  ELSE LET terms == queryTerms(q)
       IN IF terms = <<>> THEN md
          ELSE LET hits == collectHits(md, toLowerCase(md), terms, perHit)
               IN IF hits = <<>> THEN slice(md, 0, maxC)
                  ELSE slice(emitWindows(md, mergeHits(sortHits(hits), <<>>),
                                         <<>>, perHit, maxC),
                             0, maxC)

\* mutant: a query whose terms never occur returns ''
pickRelevantSnippetsNoHitEmpty(q, md, perHit, maxC) ==
  IF md = <<>> THEN <<>>
  ELSE LET terms == queryTerms(q)
       IN IF terms = <<>> THEN slice(md, 0, maxC)
          ELSE LET hits == collectHits(md, toLowerCase(md), terms, perHit)
               IN IF hits = <<>> THEN <<>>
                  ELSE slice(emitWindows(md, mergeHits(sortHits(hits), <<>>),
                                         <<>>, perHit, maxC),
                             0, maxC)

pickRelevantSnippets(q, md, perHit, maxC) ==
  IF md = <<>> THEN <<>>
  ELSE LET terms == queryTerms(q)
       IN IF terms = <<>> THEN slice(md, 0, maxC)
          ELSE LET hits == collectHits(md, toLowerCase(md), terms, perHit)
               IN IF hits = <<>> THEN slice(md, 0, maxC)
                  ELSE slice(emitWindows(md, mergeHits(sortHits(hits), <<>>),
                                         <<>>, perHit, maxC),
                             0, maxC)

----------------------------------------------------------------------------
(* JavaScript values that are not strings *)

\* undefined and null: one-element sequences no string equals, since every
\* element of a string is a single character
Undefined == <<"undefined">>
Null == <<"null">>

\* a missing property reads as undefined
Get(m, f) == IF f \in DOMAIN m THEN m[f] ELSE Undefined

\* truthiness of a string-or-absent value: undefined, null and '' are falsy
Truthy(v) == v # Undefined /\ v # Null /\ v # <<>>

\* a || b
Or(a, b) == IF Truthy(a) THEN a ELSE b

\* the character U+2014 of the header template, one character
EM_DASH == "EMDASH"

----------------------------------------------------------------------------
(* compileMessagesForGemini (gemini.js) *)

MAX_TURNS == 8
MAX_CONTEXT == 5
MAX_CONTEXT_CHARS == 3000

\* the lines of the fixed system prompt, joined with '\n' in the source;
\* each line is kept as one unit here
SYSTEM_LINES ==
  << "You are BrowseMate, a fast, reliable chat agent that runs inside a web browser.",
     "You receive three kinds of inputs:",
     "1) prior chat turns, 2) the user's current prompt, and 3) optional PAGE CONTEXT blocks that were actively ingested from webpages.",
     "Guidelines:",
     "- Always prefer facts from the most relevant PAGE CONTEXT blocks. Cite the source title or domain in-line (e.g., \"(source: example.com)\") when you rely on it.",
     "- If PAGE CONTEXT conflicts, call this out and explain the divergence; prefer the most recent, specific source.",
     "- Be concise by default; use bullet points for lists. Format code with fenced blocks.",
     "- If the question is general and PAGE CONTEXT is irrelevant, answer normally without forcing a summary.",
     "- Do not invent URLs or content that wasn't provided.",
     "- When asked to summarize a page, extract the essentials (headings, key bullets, data) and avoid boilerplate.",
     "Output should be helpful, accurate, and immediately usable." >>

systemInstruction == [parts |-> <<[text |-> SYSTEM_LINES]>>]

PAGE_CONTEXT == <<"P","A","G","E"," ","C","O","N","T","E","X","T">>
UNTITLED == <<"U","n","t","i","t","l","e","d">>
UNKNOWN == <<"U","n","k","n","o","w","n">>
CAPTURED == <<"c","a","p","t","u","r","e","d">>

\* messages.filter(m => roles.includes(m.role))
filterRole(msgs, roles) == SelectSeq(msgs, LAMBDA m : m.role \in roles)

\* Array.prototype.slice(-n)
lastN(s, n) == slice(s, 0 - n, Len(s))

\* `PAGE CONTEXT - ${title || 'Untitled'} (${url || 'Unknown'}) - captured ${timestamp || ''}`
contextHeader(m) ==
  PAGE_CONTEXT \o <<" ", EM_DASH, " ">> \o Or(Get(m, "title"), UNTITLED)
    \o <<" ", "(">> \o Or(Get(m, "url"), UNKNOWN)
    \o <<")", " ", EM_DASH, " ">> \o CAPTURED \o <<" ">> \o Or(Get(m, "timestamp"), <<>>)

\* (m.essentialMarkdown || m.markdown || m.text || '').slice(0, MAX_CONTEXT_CHARS)
contextBody(m) ==
  slice(Or(Get(m, "essentialMarkdown"), Or(Get(m, "markdown"), Or(Get(m, "text"), <<>>))),
        0, MAX_CONTEXT_CHARS)

\* the entry of a context turn sent with the turn's own role
contextEntryOwnRole(m) ==
  [role |-> m.role,
   parts |-> <<[text |-> contextHeader(m) \o <<"\n", "\n">> \o contextBody(m)]>>]

\* the map callback: one user-role entry per context turn
contextEntry(m) ==
  [role |-> "user",
   parts |-> <<[text |-> contextHeader(m) \o <<"\n", "\n">> \o contextBody(m)]>>]

\* every history entry sent with role user
historyEntryAllUser(m) == [role |-> "user", parts |-> <<[text |-> Get(m, "text")]>>]

\* the forEach callback: user and model turns keep role and text
historyEntry(m) == [role |-> m.role, parts |-> <<[text |-> Get(m, "text")]>>]

\* mutant: the chat turns are not cut to the last MAX_TURNS
userAndModelAll(msgs) == filterRole(msgs, {"user", "model"})

userAndModel(msgs) == lastN(filterRole(msgs, {"user", "model"}), MAX_TURNS)

\* the first MAX_CONTEXT context turns instead of the last
contextsOldest(msgs) ==
  LET sel == slice(filterRole(msgs, {"context"}), 0, MAX_CONTEXT)
  IN [i \in 1..Len(sel) |-> contextEntry(sel[i])]

contexts(msgs) ==
  LET sel == lastN(filterRole(msgs, {"context"}), MAX_CONTEXT)
  IN [i \in 1..Len(sel) |-> contextEntry(sel[i])]

chatHistory(msgs) ==
  LET um == userAndModel(msgs)
  IN [i \in 1..Len(um) |-> historyEntry(um[i])]

\* mutant: the chat history is placed before the context entries
compileHistoryFirst(msgs) ==
  [contents |-> chatHistory(msgs) \o contexts(msgs),
   systemInstruction |-> systemInstruction]

\* the system prompt sent as the first entry of contents
compileSystemTurnFirst(msgs) ==
  [contents |-> <<[role |-> "user", parts |-> systemInstruction.parts]>>
                  \o contexts(msgs) \o chatHistory(msgs),
   systemInstruction |-> systemInstruction]

compileMessagesForGemini(msgs) ==
  [contents |-> contexts(msgs) \o chatHistory(msgs),
   systemInstruction |-> systemInstruction]

\* the value of compiled before the compiler has run
NoResult == [contents |-> <<>>, systemInstruction |-> Undefined]

----------------------------------------------------------------------------
(* Sessions, and the panel at rest *)

\* newSession of createSession; name, createdAt and updatedAt are not
\* modelled, ingestedUrls is kept as the set of its keys
NewSession(id) == [id |-> id, messages |-> <<>>, ingestedUrls |-> {}]

\* no handler local holds a value
None == [none |-> TRUE]

\* saveSettings not running, no settings saved yet
IdleSettings == [pc |-> "idle", key |-> Null, saves |-> 0]

\* callGemini and parseGeminiResponse not called
GIdle ==
  /\ callArgs = None /\ rpc = "off" /\ attempt = 0
  /\ requests = <<>> /\ delays = <<>> /\ settled = None
  /\ response = Null /\ parsed = None

\* createSession not called
\* no cedric_* key is stored and no migration runs
NoCedric == [sessions |-> <<>>, api_key |-> Undefined, active_session_id |-> Undefined]
NoOrphans ==
  [saves |-> EmptyBag, switches |-> EmptyBag, sets |-> EmptyBag, clears |-> 0, unloads |-> 0]
MIdle == cedric = NoCedric /\ mig = <<>> /\ orphans = NoOrphans /\ reloading = FALSE

KIdle == now = 0 /\ crt = <<>> /\ imp = <<>> /\ options = {} /\ MIdle /\ swt = {}

\* the panel parts at rest, for the specifications of the pure functions
PIdle ==
  /\ store = <<>> /\ apiKey = Undefined /\ activeId = Undefined
  /\ currentSessionId = Null /\ isLoading = FALSE
  /\ ingestBtnDisabled = TRUE /\ inputDisabled = TRUE /\ view = None
  /\ ing = <<>> /\ snd = <<>> /\ rem = <<>> /\ cfg = IdleSettings

----------------------------------------------------------------------------
(* Inputs of the extractor: documents and queries built from pieces *)

RECURSIVE Flatten(_)
Flatten(ss) == IF ss = <<>> THEN <<>> ELSE Head(ss) \o Flatten(Tail(ss))

SeqsUpTo(S, n) == UNION {[1..k -> S] : k \in 0..n}

Spaces(n) == [i \in 1..n |-> " "]

DocPieces ==
  { <<"a","B","c">>, <<"x","-","y">>, Spaces(1), Spaces(MERGE_GAP + 3) }

QueryPieces ==
  { <<"A","b","c">>, <<"x","-","y">>, <<"a","b">>, <<" ">> }

Documents == {Flatten(p) : p \in SeqsUpTo(DocPieces, MaxDocPieces)}
Queries == {Flatten(p) : p \in SeqsUpTo(QueryPieces, MaxQueryPieces)}
\* a query of MAX_TERMS + 1 tokens: one token MAX_TERMS times, then another
RepeatedQuery ==
  Flatten([i \in 1..MAX_TERMS |-> <<"a","b","c"," ">>]) \o <<"x","-","y">>

PerHitCharsValues == {2, 5}
MaxCharsValues == {0, 4, 300}

----------------------------------------------------------------------------
(* The extractor as a state machine: inputs drawn at Init, one call *)

InitExtract ==
  /\ query \in Queries \cup {RepeatedQuery}
  /\ markdown \in Documents
  /\ perHitChars \in PerHitCharsValues
  /\ maxChars \in MaxCharsValues
  /\ out = <<>>
  /\ xpc = "call"
  /\ messages = <<>> /\ appended = 0 /\ compiled = NoResult /\ cpc = "off"
  /\ PIdle /\ GIdle /\ KIdle

PickRelevantSnippets ==
  /\ xpc = "call"
  /\ out' = pickRelevantSnippets(query, markdown, perHitChars, maxChars)
  /\ xpc' = "returned"
  /\ UNCHANGED <<query, markdown, perHitChars, maxChars, cvars, pvars, gvars, kvars>>

NextExtract == PickRelevantSnippets

SpecExtract == InitExtract /\ [][NextExtract]_vars

----------------------------------------------------------------------------
(* The compiler as a state machine: turns are appended to a stored        *)
(* sequence, then the sequence is compiled once                           *)

DIGIT_CHARS == <<"0","1","2","3","4","5","6","7","8","9">>

RECURSIVE NumStr(_)
\* String(n) for n >= 0
NumStr(n) ==
  IF n < 10 THEN <<DIGIT_CHARS[n + 1]>>
  ELSE NumStr(n \div 10) \o <<DIGIT_CHARS[(n % 10) + 1]>>

\* { role: 'user', text } as built by sendMessage
UserTurn(text) == [role |-> "user", text |-> text]

\* { role: 'model', text: responseText } as built by sendMessage
ModelTurn(text) == [role |-> "model", text |-> text]

\* contextMessage as built by ingestCurrentPage
ContextTurn(title, url, timestamp, md, essential) ==
  [role |-> "context", title |-> title, url |-> url, timestamp |-> timestamp,
   markdown |-> Or(md, Null), essentialMarkdown |-> essential, text |-> Undefined]

\* the n-th turn of a sequence, its position written into its fields
PlainUser(n) == UserTurn(<<"q">> \o NumStr(n))
PlainModel(n) == ModelTurn(<<"r">> \o NumStr(n))
PlainContext(n) ==
  ContextTurn(<<"T">> \o NumStr(n), <<"u">> \o NumStr(n), <<"0">>, Null,
              <<"s">> \o NumStr(n))

\* a session that already holds four context turns and six chat turns
StoredTurns ==
  << PlainContext(1), PlainUser(2), PlainContext(3), PlainModel(4), PlainContext(5),
     PlainUser(6), PlainContext(7), PlainModel(8), PlainUser(9), PlainModel(10) >>

XIdle ==
  /\ query = <<>> /\ markdown = <<>> /\ perHitChars = 0 /\ maxChars = 0
  /\ out = <<>> /\ xpc = "off"

InitCompile ==
  /\ XIdle /\ PIdle /\ GIdle /\ KIdle
  /\ messages \in {<<>>, StoredTurns}
  /\ appended = 0
  /\ compiled = NoResult
  /\ cpc = "idle"

\* the argument messages of compileMessagesForGemini, built turn by turn: any
\* list of turns that a session may hold when sendMessage reads it
AppendTurn(t) ==
  /\ cpc = "idle"
  /\ messages' = Append(messages, t)
  /\ appended' = appended + 1
  /\ UNCHANGED <<compiled, cpc, xvars, pvars, gvars, kvars>>

AppendUser == appended < MaxAppend /\ AppendTurn(PlainUser(Len(messages) + 1))
AppendModel == appended < MaxAppend /\ AppendTurn(PlainModel(Len(messages) + 1))
\* the timestamps of ingested pages: the page's own, not the time of the append
Timestamps == { <<"0">>, <<"9">> }

\* a context turn with the timestamp ts
StampedContext(n, ts) == [PlainContext(n) EXCEPT !.timestamp = ts]

AppendContext ==
  \E ts \in Timestamps :
    appended < MaxAppend /\ AppendTurn(StampedContext(Len(messages) + 1, ts))

Compile ==
  /\ cpc = "idle"
  /\ compiled' = compileMessagesForGemini(messages)
  \* filter, slice and map return new arrays and the callbacks only read m
  /\ messages' = messages
  /\ cpc' = "compiled"
  /\ UNCHANGED <<appended, xvars, pvars, gvars, kvars>>

NextCompile == AppendUser \/ AppendModel \/ AppendContext \/ Compile

SpecCompile == InitCompile /\ [][NextCompile]_vars

(* Short sequences whose context turns carry full text and summary *)

UserTexts == { <<"a","b","c","?">>, <<"k","l","m">> }
FullTexts == { Null, <<"z","z"," ","a","b","c">>, <<"a","B","c"," ","z","z">> }
\* a summary one character longer than MAX_CONTEXT_CHARS
LongSummary == [i \in 1..(MAX_CONTEXT_CHARS + 1) |-> "s"]

Summaries == { <<>>, <<"z","z">>, LongSummary }

InitCompileCtx ==
  /\ XIdle /\ PIdle /\ GIdle /\ KIdle
  /\ messages = <<>>
  /\ appended = 0
  /\ compiled = NoResult
  /\ cpc = "idle"

AppendQuestion ==
  \E t \in UserTexts : appended < MaxCtxTurns /\ AppendTurn(UserTurn(t))

AppendAnswer ==
  appended < MaxCtxTurns /\ AppendTurn(PlainModel(Len(messages) + 1))

AppendIngested ==
  \E md \in FullTexts, es \in Summaries :
    /\ appended < MaxCtxTurns
    /\ AppendTurn(ContextTurn(<<"T">>, <<"u">> \o NumStr(Len(messages) + 1), <<"0">>, md, es))

NextCompileCtx == AppendQuestion \/ AppendAnswer \/ AppendIngested \/ Compile

SpecCompileCtx == InitCompileCtx /\ [][NextCompileCtx]_vars

(* Turns that lack optional fields *)

\* the fields of a context turn that compileMessagesForGemini reads
ContextFields == {"title", "url", "timestamp", "markdown", "essentialMarkdown", "text"}

\* the value a field has when the turn carries it
SampleValue(f) ==
  CASE f = "title" -> <<"T">>
    [] f = "url" -> <<"u">>
    [] f = "timestamp" -> <<"9">>
    [] f = "markdown" -> <<"m","d">>
    [] f = "essentialMarkdown" -> <<"e","s">>
    [] f = "text" -> <<"t","x">>

\* a context turn that carries the fields fs and no other
SparseContext(fs) ==
  [f \in fs \cup {"role"} |-> IF f = "role" THEN "context" ELSE SampleValue(f)]

\* a user or model turn that carries no text
TextlessTurn(role) == [role |-> role]

AppendSparseContext ==
  \E fs \in SUBSET ContextFields :
    appended < MaxSparseTurns /\ AppendTurn(SparseContext(fs))

AppendSparseChat ==
  \E role \in {"user", "model"} :
    \E t \in {TextlessTurn(role), [role |-> role, text |-> SampleValue("text")]} :
      appended < MaxSparseTurns /\ AppendTurn(t)

NextCompileSparse == AppendSparseContext \/ AppendSparseChat \/ Compile

SpecCompileSparse == InitCompileCtx /\ [][NextCompileSparse]_vars

----------------------------------------------------------------------------
(* The panel: chrome.storage.local and the asynchronous handlers.          *)
(*                                                                          *)
(* Every await of a storage call is a point where other handlers run. One  *)
(* step of a handler is one storage operation taking effect, followed by   *)
(* the synchronous code up to the point where the next awaited call is     *)
(* issued. chrome.storage.local.get returns a copy, so a handler's session *)
(* and sessions locals are private values. The message list of the UI is   *)
(* not modelled (loadSessionMessages and addMessageToUI only write to it). *)

\* `session_${Date.now()}` of the session createSession made at start-up
SESSION_1 == <<"s","e","s","s","i","o","n","_","1">>
API_KEY == <<"k">>
Urls == { <<"u">> \o NumStr(i) : i \in 1..MaxUrls }

Ingests == 1..MaxIngests
Sends == 1..MaxSends
Removes == 1..MaxRemoves

\* the EXTRACT_CONTENT response for the page at url u
PageResponse(u) ==
  [title |-> <<"T">>, url |-> u, timestamp |-> <<"0">>,
   markdown |-> <<"p">>, essentialMarkdown |-> <<"p">>]

\* contextMessage of ingestCurrentPage
contextMessage(r) ==
  ContextTurn(r.title, r.url, r.timestamp, Get(r, "markdown"),
              Or(Get(r, "essentialMarkdown"), slice(Or(Get(r, "text"), <<>>), 0, 3000)))

\* sessions[sessionId] !== undefined
HasSession(sessions, id) == id \in DOMAIN sessions

\* A bm_sessions value that is an array (an imported file may hold one) has
\* this key besides its indices; a session id never spells it.
IS_ARRAY == <<"[", "]">>

\* Array.isArray(sessions)
isArraySessions(sessions) == IS_ARRAY \in DOMAIN sessions

\* A bm_sessions or cedric_sessions value that is the object without
\* properties, {}, has this key alone: the map without keys stands for a key
\* that has no value. A session id never spells it.
IS_EMPTY == <<"{", "}">>
EmptyObject == [k \in {IS_EMPTY} |-> [empty |-> TRUE]]

\* Object.keys(sessions)
sessionKeys(sessions) == DOMAIN sessions \ {IS_ARRAY, IS_EMPTY}

\* saveSession: sessions[session.id] = session, as chrome.storage.local.set
\* stores it: a named property of an array is not stored
putSession(sessions, session) ==
  IF isArraySessions(sessions)
    THEN sessions
    ELSE [k \in sessionKeys(sessions) \cup {session.id} |->
            IF k = session.id THEN session ELSE sessions[k]]

\* addMessage: session.messages.push(message)
pushMessage(session, message) ==
  [session EXCEPT !.messages = Append(@, message)]

\* the remove handler: messages.filter(m => !(m.role==='context' && m.url === url))
dropContext(session, u) ==
  [session EXCEPT !.messages =
     SelectSeq(@, LAMBDA m : ~ (m.role = "context" /\ Get(m, "url") = u))]

\* renderSources: the session object the list's handlers close over, and the
\* urls that got a Remove button
renderedView(session) == [session |-> session, buttons |-> session.ingestedUrls]

\* a handler's position and locals; userSid is the session id with which
\* sendMessage called addMessage for its user turn
IdleHandler ==
  [pc |-> "idle", sid |-> Null, arg |-> None, session |-> None, sessions |-> None,
   userSid |-> Null]

CIdle == messages = <<>> /\ appended = 0 /\ compiled = NoResult /\ cpc = "off"

\* the panel after initializePanel: one empty session, the API key set
InitPanel ==
  /\ XIdle /\ CIdle /\ GIdle /\ KIdle
  /\ store = [id \in {SESSION_1} |-> NewSession(id)]
  /\ apiKey = API_KEY
  /\ activeId = SESSION_1
  /\ currentSessionId = SESSION_1
  /\ isLoading = FALSE
  /\ ingestBtnDisabled = FALSE
  /\ inputDisabled = FALSE
  /\ view = None
  /\ ing = [p \in Ingests |-> IdleHandler]
  /\ snd = [k \in Sends |-> IdleHandler]
  /\ rem = [r \in Removes |-> IdleHandler]
  /\ cfg = IdleSettings

\* a handler slot is used once, the slots in order
MayStart(procs, p) ==
  procs[p].pc = "idle" /\ (IF p = 1 THEN TRUE ELSE procs[p - 1].pc # "idle")

Finished(h) == h.pc \in {"idle", "done", "failed", "duplicate"}

(* ingestCurrentPage *)

\* the finally block, with the handler's outcome
IngestEnd(p, outcome) ==
  /\ ingestBtnDisabled' = FALSE
  /\ ing' = [ing EXCEPT ![p] = [@ EXCEPT !.pc = outcome, !.session = None, !.sessions = None]]

\* click on the enabled ingest button: disable it, send EXTRACT_CONTENT
IngestClick(p) ==
  /\ MayStart(ing, p)
  /\ ~ ingestBtnDisabled
  /\ ingestBtnDisabled' = TRUE
  /\ ing' = [ing EXCEPT ![p].pc = "extract"]
  /\ UNCHANGED <<svars, currentSessionId, isLoading, inputDisabled, view, snd, rem, cfg, xvars, cvars, gvars, kvars>>

\* the response arrives; getSession(this.currentSessionId) is issued
IngestExtracted(p) ==
  /\ ing[p].pc = "extract"
  /\ \E u \in Urls :
       ing' = [ing EXCEPT ![p] = [@ EXCEPT !.pc = "getSession", !.arg = PageResponse(u),
                                            !.sid = currentSessionId]]
  /\ UNCHANGED <<svars, uvars, snd, rem, cfg, xvars, cvars, gvars, kvars>>

\* the error of the response is noticed only after its url, undefined, was
\* registered
IngestExtractFailedLate(p) ==
  /\ ing[p].pc = "extract"
  /\ store' = [store EXCEPT ![currentSessionId].ingestedUrls = @ \cup {Undefined}]
  /\ IngestEnd(p, "failed")
  /\ UNCHANGED <<apiKey, activeId, currentSessionId, isLoading, inputDisabled, view, snd, rem, cfg, xvars, cvars, gvars, kvars>>

\* the response carries an error: throw, catch, finally
IngestExtractFailed(p) ==
  /\ ing[p].pc = "extract"
  /\ IngestEnd(p, "failed")
  /\ UNCHANGED <<svars, currentSessionId, isLoading, inputDisabled, view, snd, rem, cfg, xvars, cvars, gvars, kvars>>

\* the session is read: not found, already ingested, or the url is recorded
\* in the local copy and saveSession is called
IngestGetSession(p) ==
  /\ ing[p].pc = "getSession"
  /\ IF ~ HasSession(store, ing[p].sid)
       THEN IngestEnd(p, "failed")
       ELSE IF ing[p].arg.url \in store[ing[p].sid].ingestedUrls
       THEN IngestEnd(p, "duplicate")
       ELSE /\ ing' = [ing EXCEPT ![p] = [@ EXCEPT
                         !.pc = "save_read",
                         !.session = [store[ing[p].sid] EXCEPT
                                        !.ingestedUrls = @ \cup {ing[p].arg.url}]]]
            /\ UNCHANGED ingestBtnDisabled
  /\ UNCHANGED <<svars, currentSessionId, isLoading, inputDisabled, view, snd, rem, cfg, xvars, cvars, gvars, kvars>>

\* saveSession reads the sessions map and puts the local session into it
IngestSaveRead(p) ==
  /\ ing[p].pc = "save_read"
  /\ ing' = [ing EXCEPT ![p] = [@ EXCEPT !.pc = "save_write",
                                         !.sessions = putSession(store, ing[p].session)]]
  /\ UNCHANGED <<svars, uvars, snd, rem, cfg, xvars, cvars, gvars, kvars>>

\* saveSession writes the map; addMessage(this.currentSessionId, contextMessage)
\* is called
IngestSaveWrite(p) ==
  /\ ing[p].pc = "save_write"
  /\ store' = ing[p].sessions
  /\ ing' = [ing EXCEPT ![p] = [@ EXCEPT !.pc = "add_getSession", !.sid = currentSessionId,
                                         !.session = None, !.sessions = None]]
  /\ UNCHANGED <<apiKey, activeId, uvars, snd, rem, cfg, xvars, cvars, gvars, kvars>>

\* addMessage reads the session and pushes the context turn
IngestAddGetSession(p) ==
  /\ ing[p].pc = "add_getSession"
  /\ IF ~ HasSession(store, ing[p].sid)
       THEN IngestEnd(p, "failed")
       ELSE /\ ing' = [ing EXCEPT ![p] = [@ EXCEPT
                         !.pc = "add_read",
                         !.session = pushMessage(store[ing[p].sid], contextMessage(ing[p].arg))]]
            /\ UNCHANGED ingestBtnDisabled
  /\ UNCHANGED <<svars, currentSessionId, isLoading, inputDisabled, view, snd, rem, cfg, xvars, cvars, gvars, kvars>>

\* addMessage's saveSession reads the sessions map
IngestAddRead(p) ==
  /\ ing[p].pc = "add_read"
  /\ ing' = [ing EXCEPT ![p] = [@ EXCEPT !.pc = "add_write",
                                         !.sessions = putSession(store, ing[p].session)]]
  /\ UNCHANGED <<svars, uvars, snd, rem, cfg, xvars, cvars, gvars, kvars>>

\* addMessage's saveSession writes the map; loadSessionMessages is called
\* and issues its getSession
IngestAddWrite(p) ==
  /\ ing[p].pc = "add_write"
  /\ store' = ing[p].sessions
  /\ ing' = [ing EXCEPT ![p] = [@ EXCEPT !.pc = "loadSessionMessages",
                                         !.session = None, !.sessions = None]]
  /\ UNCHANGED <<apiKey, activeId, uvars, snd, rem, cfg, xvars, cvars, gvars, kvars>>

\* loadSessionMessages returns (it catches its own errors); renderSources is
\* called and issues getSession(this.currentSessionId)
IngestLoadMessages(p) ==
  /\ ing[p].pc = "loadSessionMessages"
  /\ ing' = [ing EXCEPT ![p] = [@ EXCEPT !.pc = "render", !.sid = currentSessionId]]
  /\ UNCHANGED <<svars, uvars, snd, rem, cfg, xvars, cvars, gvars, kvars>>

\* renderSources reads the session and rebuilds the list; then finally
IngestRender(p) ==
  /\ ing[p].pc = "render"
  /\ IF HasSession(store, ing[p].sid)
       THEN /\ view' = renderedView(store[ing[p].sid])
            /\ rem' = [r \in DOMAIN rem |-> [rem[r] EXCEPT !.arg =
                         IF rem[r].arg = None THEN None ELSE [@ EXCEPT !.shared = FALSE]]]
       ELSE UNCHANGED <<view, rem>>
  /\ IngestEnd(p, "done")
  /\ UNCHANGED <<svars, currentSessionId, isLoading, inputDisabled, snd, cfg, xvars, cvars, gvars, kvars>>

\* the positions at which ingestCurrentPage awaits chrome.storage.local
IngestStorageAwaits ==
  {"getSession", "save_read", "save_write", "add_getSession", "add_read", "add_write", "render"}

\* the awaited storage operation rejects: catch, finally
IngestStorageFailed(p) ==
  /\ ing[p].pc \in IngestStorageAwaits
  /\ IngestEnd(p, "failed")
  /\ UNCHANGED <<svars, currentSessionId, isLoading, inputDisabled, view, snd, rem, cfg, xvars, cvars, gvars, kvars>>

(* sendMessage *)

\* the handler ends without its finally block: isLoading stays as it is
SendEndLockHeld(k, outcome) ==
  /\ isLoading' = isLoading
  /\ inputDisabled' = inputDisabled
  /\ snd' = [snd EXCEPT ![k] = [@ EXCEPT !.pc = outcome, !.session = None, !.sessions = None]]

\* catch and finally, or finally alone: isLoading = false, setLoadingState(false)
SendEnd(k, outcome) ==
  /\ isLoading' = FALSE
  /\ inputDisabled' = FALSE
  /\ snd' = [snd EXCEPT ![k] = [@ EXCEPT !.pc = outcome, !.session = None, !.sessions = None]]

\* the guard without its isLoading conjunct
sendMessageGuardNoLoading(text, sid, loading) == text # <<>> /\ sid # Null

\* sendMessage does not return at once: !(!text || !currentSessionId || isLoading)
sendMessageGuard(text, sid, loading) == text # <<>> /\ sid # Null /\ ~ loading

\* send click or Ctrl/Cmd+Enter with text in the enabled input: the guard of
\* sendMessage, isLoading = true, setLoadingState(true), addMessage of the
\* user turn is called
SendClick(k) ==
  /\ MayStart(snd, k)
  /\ ~ inputDisabled
  /\ sendMessageGuard(<<"q">> \o NumStr(k), currentSessionId, isLoading)
  /\ isLoading' = TRUE
  /\ inputDisabled' = TRUE
  /\ snd' = [snd EXCEPT ![k] = [@ EXCEPT !.pc = "user_getSession", !.sid = currentSessionId,
                                         !.userSid = currentSessionId,
                                         !.arg = <<"q">> \o NumStr(k)]]
  /\ UNCHANGED <<svars, currentSessionId, ingestBtnDisabled, view, ing, rem, cfg, xvars, cvars, gvars, kvars>>

\* addMessage reads the session and pushes the turn (user turn, then model turn)
SendAddGetSession(k, at, next, turn) ==
  /\ snd[k].pc = at
  /\ IF ~ HasSession(store, snd[k].sid)
       THEN SendEnd(k, "failed")
       ELSE /\ snd' = [snd EXCEPT ![k] = [@ EXCEPT
                         !.pc = next,
                         !.session = pushMessage(store[snd[k].sid], turn)]]
            /\ UNCHANGED <<isLoading, inputDisabled>>
  /\ UNCHANGED <<svars, currentSessionId, ingestBtnDisabled, view, ing, rem, cfg, xvars, cvars, gvars, kvars>>

\* addMessage's saveSession reads the sessions map
SendAddRead(k, at, next) ==
  /\ snd[k].pc = at
  /\ snd' = [snd EXCEPT ![k] = [@ EXCEPT !.pc = next,
                                         !.sessions = putSession(store, snd[k].session)]]
  /\ UNCHANGED <<svars, uvars, ing, rem, cfg, xvars, cvars, gvars, kvars>>

SendUserGetSession(k) ==
  SendAddGetSession(k, "user_getSession", "user_read", UserTurn(snd[k].arg))

SendUserRead(k) == SendAddRead(k, "user_read", "user_write")

\* the user turn is written; getApiKey is called
SendUserWrite(k) ==
  /\ snd[k].pc = "user_write"
  /\ store' = snd[k].sessions
  /\ snd' = [snd EXCEPT ![k] = [@ EXCEPT !.pc = "getApiKey", !.session = None, !.sessions = None]]
  /\ UNCHANGED <<apiKey, activeId, uvars, ing, rem, cfg, xvars, cvars, gvars, kvars>>

\* the key is read: 'API key not set', or getSession(this.currentSessionId)
SendGetApiKey(k) ==
  /\ snd[k].pc = "getApiKey"
  /\ IF ~ Truthy(apiKey)
       THEN SendEnd(k, "failed")
       ELSE /\ snd' = [snd EXCEPT ![k] = [@ EXCEPT !.pc = "getSession", !.sid = currentSessionId]]
            /\ UNCHANGED <<isLoading, inputDisabled>>
  /\ UNCHANGED <<svars, currentSessionId, ingestBtnDisabled, view, ing, rem, cfg, xvars, cvars, gvars, kvars>>

\* the session is read and compiled; callGemini rejects empty contents,
\* otherwise the request is sent
SendGetSession(k) ==
  /\ snd[k].pc = "getSession"
  /\ IF \/ ~ HasSession(store, snd[k].sid)
        \/ compileMessagesForGemini(store[snd[k].sid].messages).contents = <<>>
       THEN SendEnd(k, "failed")
       ELSE /\ snd' = [snd EXCEPT ![k].pc = "request"]
            /\ UNCHANGED <<isLoading, inputDisabled>>
  /\ UNCHANGED <<svars, currentSessionId, ingestBtnDisabled, view, ing, rem, cfg, xvars, cvars, gvars, kvars>>

\* the response arrives and parses; addMessage of the model turn is called
SendResponse(k) ==
  /\ snd[k].pc = "request"
  /\ snd' = [snd EXCEPT ![k] = [@ EXCEPT !.pc = "model_getSession", !.sid = currentSessionId]]
  /\ UNCHANGED <<svars, uvars, ing, rem, cfg, xvars, cvars, gvars, kvars>>

\* the catch block stores the error message it shows as a model turn
SendRequestFailedStored(k) ==
  /\ snd[k].pc = "request"
  /\ store' = [store EXCEPT ![snd[k].sid] = pushMessage(@, ModelTurn(<<"Error">>))]
  /\ SendEnd(k, "failed")
  /\ UNCHANGED <<apiKey, activeId, currentSessionId, ingestBtnDisabled, view, ing, rem, cfg, xvars, cvars, gvars, kvars>>

\* the request fails after its retries, or the response does not parse
SendRequestFailed(k) ==
  /\ snd[k].pc = "request"
  /\ SendEnd(k, "failed")
  /\ UNCHANGED <<svars, currentSessionId, ingestBtnDisabled, view, ing, rem, cfg, xvars, cvars, gvars, kvars>>

SendModelGetSession(k) ==
  SendAddGetSession(k, "model_getSession", "model_read", ModelTurn(<<"r">> \o NumStr(k)))

SendModelRead(k) == SendAddRead(k, "model_read", "model_write")

\* the model turn is written; finally
SendModelWrite(k) ==
  /\ snd[k].pc = "model_write"
  /\ store' = snd[k].sessions
  /\ SendEnd(k, "done")
  /\ UNCHANGED <<apiKey, activeId, currentSessionId, ingestBtnDisabled, view, ing, rem, cfg, xvars, cvars, gvars, kvars>>

\* the positions at which sendMessage awaits chrome.storage.local
SendStorageAwaits ==
  {"user_getSession", "user_read", "user_write", "getApiKey", "getSession",
   "model_getSession", "model_read", "model_write"}

\* the awaited storage operation rejects: catch, finally
SendStorageFailed(k) ==
  /\ snd[k].pc \in SendStorageAwaits
  /\ SendEnd(k, "failed")
  /\ UNCHANGED <<svars, currentSessionId, ingestBtnDisabled, view, ing, rem, cfg, xvars, cvars, gvars, kvars>>

(* the Remove button's click handler of renderSources *)

\* the handler's object is the rendered one until the list is rendered again
SyncView(r, obj) ==
  IF rem[r].arg.shared THEN view' = [view EXCEPT !.session = obj] ELSE UNCHANGED view

\* click on the Remove button of url u: delete session.ingestedUrls[url] on
\* the rendered session object, saveSession is called. One handler runs at
\* a time.
RemoveClick(r) ==
  /\ MayStart(rem, r)
  /\ \A q \in Removes : Finished(rem[q])
  /\ view # None
  /\ \E u \in view.buttons :
       LET obj == [view.session EXCEPT !.ingestedUrls = @ \ {u}]
       IN /\ rem' = [rem EXCEPT ![r] = [@ EXCEPT !.pc = "save1_read", !.session = obj,
                                                 !.arg = [url |-> u, shared |-> TRUE]]]
          /\ view' = [view EXCEPT !.session = obj]
  /\ UNCHANGED <<svars, currentSessionId, isLoading, ingestBtnDisabled, inputDisabled, ing, snd, cfg, xvars, cvars, gvars, kvars>>

\* saveSession reads the sessions map and puts the handler's object into it
RemoveSaveRead(r, at, next) ==
  /\ rem[r].pc = at
  /\ rem' = [rem EXCEPT ![r] = [@ EXCEPT !.pc = next,
                                         !.sessions = putSession(store, rem[r].session)]]
  /\ UNCHANGED <<svars, uvars, ing, snd, cfg, xvars, cvars, gvars, kvars>>

RemoveSave1Read(r) == RemoveSaveRead(r, "save1_read", "save1_write")

\* the registry is written; the context turns of the url are filtered out of
\* the object's messages, saveSession is called again
RemoveSave1Write(r) ==
  /\ rem[r].pc = "save1_write"
  /\ store' = rem[r].sessions
  /\ LET obj == dropContext(rem[r].session, rem[r].arg.url)
     IN /\ rem' = [rem EXCEPT ![r] = [@ EXCEPT !.pc = "save2_read", !.session = obj,
                                               !.sessions = None]]
        /\ SyncView(r, obj)
  /\ UNCHANGED <<apiKey, activeId, currentSessionId, isLoading, ingestBtnDisabled, inputDisabled, ing, snd, cfg, xvars, cvars, gvars, kvars>>

RemoveSave2Read(r) == RemoveSaveRead(r, "save2_read", "save2_write")

\* the filtered session is written; renderSources is called
RemoveSave2Write(r) ==
  /\ rem[r].pc = "save2_write"
  /\ store' = rem[r].sessions
  /\ rem' = [rem EXCEPT ![r] = [@ EXCEPT !.pc = "render", !.sid = currentSessionId,
                                         !.sessions = None]]
  /\ UNCHANGED <<apiKey, activeId, uvars, ing, snd, cfg, xvars, cvars, gvars, kvars>>

\* renderSources reads the session and rebuilds the list
RemoveRender(r) ==
  /\ rem[r].pc = "render"
  /\ IF HasSession(store, rem[r].sid)
       THEN view' = renderedView(store[rem[r].sid])
       ELSE UNCHANGED view
  /\ rem' = [rem EXCEPT ![r] = [@ EXCEPT !.pc = "done", !.session = None]]
  /\ UNCHANGED <<svars, currentSessionId, isLoading, ingestBtnDisabled, inputDisabled, ing, snd, cfg, xvars, cvars, gvars, kvars>>

(* closeSettings / saveSettings / checkApiKeyStatus *)

\* the settings modal is closed with key in the API key input: saveSettings
\* runs unawaited and calls setApiKey. One saveSettings runs at a time.
SettingsClose ==
  /\ cfg.pc = "idle"
  /\ cfg.saves < MaxSettingsSaves
  /\ \E key \in {<<>>, API_KEY} :
       cfg' = [pc |-> "setApiKey", key |-> key, saves |-> cfg.saves + 1]
  /\ UNCHANGED <<svars, uvars, ing, snd, rem, xvars, cvars, gvars, kvars>>

\* the key is written; updateSettings and getSettings touch bm_settings
\* only; checkApiKeyStatus is called
SettingsSetApiKey ==
  /\ cfg.pc = "setApiKey"
  /\ apiKey' = cfg.key
  /\ cfg' = [cfg EXCEPT !.pc = "check", !.key = Null]
  /\ UNCHANGED <<store, activeId, uvars, ing, snd, rem, xvars, cvars, gvars, kvars>>

\* checkApiKeyStatus reads the key: without one the ingest button and the
\* input are disabled, with one both are enabled
SettingsCheck ==
  /\ cfg.pc = "check"
  /\ ingestBtnDisabled' = ~ Truthy(apiKey)
  /\ inputDisabled' = ~ Truthy(apiKey)
  /\ cfg' = [cfg EXCEPT !.pc = "idle"]
  /\ UNCHANGED <<svars, currentSessionId, isLoading, view, ing, snd, rem, xvars, cvars, gvars, kvars>>

Ingest(p) ==
  \/ IngestClick(p) \/ IngestExtracted(p) \/ IngestExtractFailed(p)
  \/ IngestGetSession(p) \/ IngestSaveRead(p) \/ IngestSaveWrite(p)
  \/ IngestAddGetSession(p) \/ IngestAddRead(p) \/ IngestAddWrite(p)
  \/ IngestLoadMessages(p) \/ IngestRender(p) \/ IngestStorageFailed(p)

Send(k) ==
  \/ SendClick(k) \/ SendUserGetSession(k) \/ SendUserRead(k) \/ SendUserWrite(k)
  \/ SendGetApiKey(k) \/ SendGetSession(k) \/ SendResponse(k) \/ SendRequestFailed(k)
  \/ SendModelGetSession(k) \/ SendModelRead(k) \/ SendModelWrite(k)
  \/ SendStorageFailed(k)

Remove(r) ==
  \/ RemoveClick(r) \/ RemoveSave1Read(r) \/ RemoveSave1Write(r)
  \/ RemoveSave2Read(r) \/ RemoveSave2Write(r) \/ RemoveRender(r)

Settings == SettingsClose \/ SettingsSetApiKey \/ SettingsCheck

NextPanel ==
  \/ \E p \in Ingests : Ingest(p)
  \/ \E k \in Sends : Send(k)
  \/ \E r \in Removes : Remove(r)
  \/ Settings

SpecPanel == InitPanel /\ [][NextPanel]_vars

\* the panel with the send affordances pressed again and again: sends,
\* settings saves and ingests, no source removed
SendPresses == 1..MaxSendPresses
\* one ingest runs alongside the sends
SendIngests == {1}

InitSends ==
  /\ XIdle /\ CIdle /\ GIdle /\ KIdle
  /\ store = [id \in {SESSION_1} |-> NewSession(id)]
  /\ apiKey = API_KEY
  /\ activeId = SESSION_1
  /\ currentSessionId = SESSION_1
  /\ isLoading = FALSE
  /\ ingestBtnDisabled = FALSE
  /\ inputDisabled = FALSE
  /\ view = None
  /\ ing = [p \in SendIngests |-> IdleHandler]
  /\ snd = [k \in SendPresses |-> IdleHandler]
  /\ rem = <<>>
  /\ cfg = IdleSettings

NextSends ==
  \/ \E k \in SendPresses : Send(k)
  \/ \E p \in SendIngests : Ingest(p)
  \/ Settings

SpecSends == InitSends /\ [][NextSends]_vars

\* every step of sendMessage behind the click: an awaited operation settles
SendSettles(k) ==
  \/ SendUserGetSession(k) \/ SendUserRead(k) \/ SendUserWrite(k)
  \/ SendGetApiKey(k) \/ SendGetSession(k) \/ SendResponse(k) \/ SendRequestFailed(k)
  \/ SendModelGetSession(k) \/ SendModelRead(k) \/ SendModelWrite(k)
  \/ SendStorageFailed(k)

\* the sends and the settings saves alone, no page ingested
InitLock ==
  /\ XIdle /\ CIdle /\ GIdle /\ KIdle
  /\ store = [id \in {SESSION_1} |-> NewSession(id)]
  /\ apiKey = API_KEY
  /\ activeId = SESSION_1
  /\ currentSessionId = SESSION_1
  /\ isLoading = FALSE
  /\ ingestBtnDisabled = FALSE
  /\ inputDisabled = FALSE
  /\ view = None
  /\ ing = <<>>
  /\ snd = [k \in SendPresses |-> IdleHandler]
  /\ rem = <<>>
  /\ cfg = IdleSettings

NextLock == (\E k \in SendPresses : Send(k)) \/ Settings

\* every awaited operation of a send settles
SpecLockFair ==
  InitLock /\ [][NextLock]_vars /\ \A k \in SendPresses : WF_vars(SendSettles(k))

----------------------------------------------------------------------------
(* callGemini and retryWithBackoff (gemini.js). A string is a sequence of  *)
(* pieces: single characters where the code looks inside the string, whole *)
(* literals elsewhere.                                                     *)

\* RETRY_CONFIG
maxRetries == 3
baseDelay == 1000
maxDelay == 10000
\* Math.random() * 200 lies in [0, 200)
JITTER == 200

\* the HTTP statuses of a response that is not ok
FailureStatuses == {400, 401, 403, 429, 500, 503, 504}

\* the detail of a failed response: error.message of the body, or the body
ErrorDetails ==
  { <<>>,
    <<"b", "a", "d">>,
    <<"l", "i", "m", "i", "t", " ", "4", "0", "0">> }

\* makeGeminiRequest: new Error(`HTTP ${response.status}: ${detail}`)
httpError(status, detail) ==
  [status |-> status, message |-> <<"HTTP ">> \o NumStr(status) \o <<": ">> \o detail]

\* fetch rejects: no response arrived in time (status 0: no response)
fetchError == [status |-> 0, message |-> <<"Failed to fetch">>]

RequestFailures ==
  { httpError(st, d) : st \in FailureStatuses, d \in ErrorDetails } \cup {fetchError}

\* a successful attempt: response.json()
okResponse == [ok |-> TRUE]

\* retryWithBackoff never gives up on client errors
doNotRetryNever(message) == FALSE

\* retryWithBackoff: don't retry on client errors (4xx)
doNotRetry(message) ==
  \/ includes(message, <<"4", "0", "0">>)
  \/ includes(message, <<"4", "0", "1">>)
  \/ includes(message, <<"4", "0", "3">>)

\* one attempt more than maxRetries
exceededRetriesLate(att) == att > maxRetries

\* retryWithBackoff: attempt >= RETRY_CONFIG.maxRetries
exceededRetries(att) == att >= maxRetries

\* the exponent one too high: the first delay is already doubled
backoffDelayDoubled(att) == Min2(baseDelay * 2 ^ att, maxDelay)

\* Math.min(baseDelay * Math.pow(2, attempt - 1), maxDelay)
backoffDelay(att) == Min2(baseDelay * 2 ^ (att - 1), maxDelay)

\* the jitter values tried: the ends of [0, 200) in whole milliseconds
JitterValues == {0, JITTER - 1}

Rejected(error) == [rejected |-> error]
Resolved(value) == [resolved |-> value]

API_KEY_REQUIRED == [status |-> 0, message |-> <<"API key is required">>]
CONTENTS_REQUIRED ==
  [status |-> 0, message |-> <<"Contents array is required and must not be empty">>]

\* the arguments of a call: a key or none, contents or none
CallArguments ==
  { [apiKey |-> k, contents |-> c] :
      k \in {<<>>, API_KEY},
      c \in {<<>>, <<historyEntry(UserTurn(<<"q">>))>>} }

InitCall ==
  /\ XIdle /\ CIdle /\ PIdle /\ KIdle
  /\ callArgs \in CallArguments
  /\ rpc = "called"
  /\ attempt = 0
  /\ requests = <<>> /\ delays = <<>> /\ settled = None
  /\ response = Null /\ parsed = None

\* callGemini: the argument checks, then retryWithBackoff(fn) sends the
\* first request
CallGemini ==
  /\ rpc = "called"
  /\ IF ~ Truthy(callArgs.apiKey)
       THEN /\ settled' = Rejected(API_KEY_REQUIRED)
            /\ rpc' = "rejected"
            /\ UNCHANGED attempt
       ELSE IF callArgs.contents = <<>>
       THEN /\ settled' = Rejected(CONTENTS_REQUIRED)
            /\ rpc' = "rejected"
            /\ UNCHANGED attempt
       ELSE /\ attempt' = 1
            /\ rpc' = "request"
            /\ UNCHANGED settled
  /\ UNCHANGED <<callArgs, requests, delays, response, parsed, xvars, cvars, pvars, kvars>>

\* fn() resolves: the call returns the response
RequestSucceeds ==
  /\ rpc = "request"
  /\ requests' = Append(requests, okResponse)
  /\ settled' = Resolved(okResponse)
  /\ rpc' = "resolved"
  /\ UNCHANGED <<callArgs, attempt, delays, response, parsed, xvars, cvars, pvars, kvars>>

\* fn() rejects with error: the catch block rethrows, or starts the timer of
\* the backoff delay
RequestFails ==
  /\ rpc = "request"
  /\ \E error \in RequestFailures :
       /\ requests' = Append(requests, error)
       /\ IF doNotRetry(error.message) \/ exceededRetries(attempt)
            THEN /\ settled' = Rejected(error)
                 /\ rpc' = "rejected"
                 /\ UNCHANGED delays
            ELSE /\ \E jitter \in JitterValues :
                      delays' = Append(delays, backoffDelay(attempt) + jitter)
                 /\ rpc' = "backoff"
                 /\ UNCHANGED settled
  /\ UNCHANGED <<callArgs, attempt, response, parsed, xvars, cvars, pvars, kvars>>

\* the timer fires: retryWithBackoff(fn, attempt + 1) sends the next request
BackoffElapsed ==
  /\ rpc = "backoff"
  /\ attempt' = attempt + 1
  /\ rpc' = "request"
  /\ UNCHANGED <<callArgs, requests, delays, settled, response, parsed, xvars, cvars, pvars, kvars>>

NextCall == CallGemini \/ RequestSucceeds \/ RequestFails \/ BackoffElapsed

SpecCall == InitCall /\ [][NextCall]_vars

----------------------------------------------------------------------------
(* parseGeminiResponse (gemini.js). The response is parsed JSON: its values *)
(* carry their type, so that an empty array, an empty string and a missing  *)
(* field stay apart.                                                        *)

jsUndefined == [type |-> "undefined"]
jsNull == [type |-> "null"]
jsString(chars) == [type |-> "string", chars |-> chars]
jsNumber(n) == [type |-> "number", value |-> n]
jsArray(items) == [type |-> "array", items |-> items]
jsObject(fields) == [type |-> "object", fields |-> fields]

\* !v is false
jsTruthy(v) ==
  CASE v.type \in {"undefined", "null"} -> FALSE
    [] v.type = "string" -> v.chars # <<>>
    [] v.type = "number" -> v.value # 0
    [] OTHER -> TRUE

\* v.f throws a TypeError
jsNoProperties(v) == v.type \in {"undefined", "null"}

\* v.f of a value that has properties; the fields of strings, numbers and
\* arrays that the parser asks for do not exist
jsProp(v, f) ==
  IF v.type = "object" /\ f \in DOMAIN v.fields THEN v.fields[f] ELSE jsUndefined

\* Array.isArray(v)
jsIsArray(v) == v.type = "array"

\* v[0] of an array
jsFirst(v) == IF v.items = <<>> THEN jsUndefined ELSE v.items[1]

ReturnedValue(value) == [returned |-> value]
Thrown(message) == [thrown |-> message]

\* the catch block: new Error(`Failed to parse response: ${error.message}`)
parseFailure(message) == Thrown(<<"Failed to parse response: ", message>>)

MISSING_CANDIDATES == "Invalid response format: missing candidates array"
NO_RESPONSE == "No response generated"
MISSING_PARTS == "Invalid candidate format: missing content parts"
NO_PARTS == "No content parts in response"
NO_TEXT == "No text content in response part"
\* the engine's message for reading a property of undefined or null
TYPE_ERROR == "Cannot read properties of undefined or null"

\* the parser with the test for text left out
parseTextPartUnchecked(textPart) ==
  IF jsNoProperties(textPart) THEN parseFailure(TYPE_ERROR)
  ELSE ReturnedValue(jsProp(textPart, "text"))

\* const textPart = candidate.content.parts[0]; if (!textPart.text) throw;
\* return textPart.text
parseTextPart(textPart) ==
  IF jsNoProperties(textPart) THEN parseFailure(TYPE_ERROR)
  ELSE IF ~ jsTruthy(jsProp(textPart, "text")) THEN parseFailure(NO_TEXT)
  ELSE ReturnedValue(jsProp(textPart, "text"))

\* const candidate = response.candidates[0] and the tests on it
parseCandidate(candidate) ==
  IF jsNoProperties(candidate) THEN parseFailure(TYPE_ERROR)
  ELSE LET content == jsProp(candidate, "content")
       IN IF \/ ~ jsTruthy(content)
             \/ ~ jsTruthy(jsProp(content, "parts"))
             \/ ~ jsIsArray(jsProp(content, "parts"))
            THEN parseFailure(MISSING_PARTS)
          ELSE IF jsProp(content, "parts").items = <<>> THEN parseFailure(NO_PARTS)
          ELSE parseTextPart(jsFirst(jsProp(content, "parts")))

parseGeminiResponse(r) ==
  IF \/ ~ jsTruthy(r)
     \/ ~ jsTruthy(jsProp(r, "candidates"))
     \/ ~ jsIsArray(jsProp(r, "candidates"))
    THEN parseFailure(MISSING_CANDIDATES)
  ELSE IF jsProp(r, "candidates").items = <<>> THEN parseFailure(NO_RESPONSE)
  ELSE parseCandidate(jsFirst(jsProp(r, "candidates")))

\* the responses tried
TextValues ==
  { jsUndefined, jsNull, jsString(<<>>), jsString(<<"o", "k">>),
    jsString(<<"a", " ", "b">>), jsNumber(0), jsNumber(7) }

PartValues ==
  { jsNull, jsObject(<<>>) } \cup { jsObject([text |-> t]) : t \in TextValues }

\* no element, one element, or one element followed by a fixed second one
ListsOf(elements, second) ==
  { jsArray(<<>>) } \cup { jsArray(<<e>>) : e \in elements }
                     \cup { jsArray(<<e, second>>) : e \in elements }

PartsValues ==
  { jsUndefined, jsString(<<"x">>) }
    \cup ListsOf(PartValues, jsObject([text |-> jsString(<<"z">>)]))

ContentValues ==
  { jsUndefined, jsNull } \cup { jsObject([parts |-> ps]) : ps \in PartsValues }

CandidateValues ==
  { jsNull, jsObject(<<>>) } \cup { jsObject([content |-> c]) : c \in ContentValues }

CandidatesValues ==
  { jsUndefined, jsString(<<"x">>) } \cup ListsOf(CandidateValues, jsObject(<<>>))

Responses ==
  { jsNull, jsUndefined, jsObject(<<>>) }
    \cup { jsObject([candidates |-> cs]) : cs \in CandidatesValues }

InitParse ==
  /\ XIdle /\ CIdle /\ PIdle /\ KIdle
  /\ callArgs = None /\ rpc = "off" /\ attempt = 0
  /\ requests = <<>> /\ delays = <<>> /\ settled = None
  /\ response \in Responses
  /\ parsed = None

\* parseGeminiResponse(response) returns or throws
ParseGeminiResponse ==
  /\ parsed = None
  /\ parsed' = parseGeminiResponse(response)
  /\ UNCHANGED <<response, callArgs, rpc, attempt, requests, delays, settled, xvars, cvars, pvars, kvars>>

NextParse == ParseGeminiResponse

SpecParse == InitParse /\ [][NextParse]_vars

----------------------------------------------------------------------------
(* SessionStorage.createSession (storage.js): two awaited storage reads and *)
(* one awaited write. Calls may overlap: createNewSession of the panel      *)
(* awaits it, and nothing keeps the user from pressing New Session again.   *)

Creates == 1..MaxCreates

SESSION_PREFIX == <<"s","e","s","s","i","o","n","_">>
SESSION_NAME == <<"S","e","s","s","i","o","n"," ">>

\* `session_${Date.now()}` at the millisecond t
sessionId(t) == SESSION_PREFIX \o NumStr(t)

\* newSession of createSession with its name; createdAt and updatedAt are
\* not modelled
newSession(sessions, t) ==
  [id |-> sessionId(t),
   name |-> SESSION_NAME \o NumStr(Cardinality(sessionKeys(sessions)) + 1),
   messages |-> <<>>, ingestedUrls |-> {}]

\* sid: the argument of the switchSession that the handler runs
IdleCreate == [pc |-> "idle", sessions |-> None, session |-> None, sid |-> Null]

InitCreate ==
  /\ XIdle /\ CIdle /\ GIdle
  /\ store = <<>> /\ apiKey = Undefined /\ activeId = Undefined
  /\ currentSessionId = Null /\ isLoading = FALSE
  /\ ingestBtnDisabled = TRUE /\ inputDisabled = TRUE /\ view = None
  /\ ing = <<>> /\ snd = <<>> /\ rem = <<>> /\ cfg = IdleSettings
  /\ now = 0
  /\ crt = [p \in Creates |-> IdleCreate]
  /\ imp = <<>>
  /\ options = {}
  /\ MIdle
  /\ swt = {}

\* a millisecond passes
Tick ==
  /\ now < MaxClock
  /\ now' = now + 1
  /\ UNCHANGED <<crt, imp, options, mvars, swt, xvars, cvars, pvars, gvars>>

\* createSession is called: getSessions is issued
CreateSession(p) ==
  /\ crt[p].pc = "idle"
  /\ crt' = [crt EXCEPT ![p].pc = "getSessions"]
  /\ UNCHANGED <<now, imp, options, mvars, swt, xvars, cvars, pvars, gvars>>

\* getSessions returns: newSession is built, saveSession is called and
\* issues its own getSessions
CreateBuild(p) ==
  /\ crt[p].pc = "getSessions"
  /\ crt' = [crt EXCEPT ![p] = [@ EXCEPT !.pc = "saveSession",
                                          !.session = newSession(store, now)]]
  /\ UNCHANGED <<now, imp, options, mvars, swt, xvars, cvars, pvars, gvars>>

\* saveSession's getSessions returns: sessions[session.id] = session, set is
\* issued
CreateSaveRead(p) ==
  /\ crt[p].pc = "saveSession"
  /\ crt' = [crt EXCEPT ![p].pc = "set",
                        ![p].sessions = putSession(store, crt[p].session)]
  /\ UNCHANGED <<now, imp, options, mvars, swt, xvars, cvars, pvars, gvars>>

\* chrome.storage.local.set completes: the whole map is written, createSession
\* returns newSession
CreateSaveWrite(p) ==
  /\ crt[p].pc = "set"
  /\ store' = crt[p].sessions
  /\ crt' = [crt EXCEPT ![p].pc = "returned"]
  /\ UNCHANGED <<now, imp, options, mvars, swt, apiKey, activeId, uvars, hvars, xvars, cvars, gvars>>

NextCreate ==
  \/ Tick
  \/ \E p \in Creates :
       CreateSession(p) \/ CreateBuild(p) \/ CreateSaveRead(p) \/ CreateSaveWrite(p)

SpecCreate == InitCreate /\ [][NextCreate]_vars

----------------------------------------------------------------------------
(* handleFileImport (panel.js): the chosen file is read, parsed as JSON and *)
(* validated; a file that passes is written as the bm_sessions value. The   *)
(* parsed content is a JSON value as in the parser above.                   *)

Imports == 1..MaxImports

\* file.text() is not JSON: JSON.parse throws a SyntaxError
NotJson == [type |-> "syntax error"]

SESSION_2 == sessionId(2)
SESSION_9 == sessionId(9)

\* the session id that a key of the file's top-level object spells
FileKeyId(k) ==
  CASE k = "session_1" -> SESSION_1
    [] k = "session_2" -> SESSION_2
    [] k = "session_9" -> SESSION_9

\* a message of an exported session
FileTurn == jsObject([role |-> jsString(<<"user">>), text |-> jsString(<<"h", "i">>)])

\* an entry of the file with an id and a messages array
FileSession(id, msgs) == jsObject([id |-> jsString(id), messages |-> jsArray(msgs)])

PassingEntries == { FileSession(SESSION_1, <<>>), FileSession(SESSION_9, <<FileTurn>>) }

FailingEntries ==
  { jsNull, jsString(<<"x">>), jsObject(<<>>),
    jsObject([id |-> jsString(SESSION_1)]),
    jsObject([messages |-> jsArray(<<>>)]),
    jsObject([id |-> jsString(<<>>), messages |-> jsArray(<<>>)]),
    jsObject([id |-> jsString(SESSION_1), messages |-> jsNull]),
    jsObject([id |-> jsString(SESSION_1), messages |-> jsString(<<"x">>)]) }

\* the files tried: not JSON, JSON that is no object, arrays, and objects of
\* up to two entries
ImportFiles ==
  { NotJson, jsNull, jsString(<<"x">>), jsNumber(1), jsArray(<<>>), jsObject(<<>>),
    jsArray(<<FileSession(SESSION_9, <<>>)>>) }
    \cup { jsObject([session_1 |-> e]) : e \in PassingEntries \cup FailingEntries }
    \cup { jsObject([session_9 |-> e]) : e \in PassingEntries }
    \cup { jsObject([session_1 |-> g, session_9 |-> e]) :
             g \in PassingEntries, e \in PassingEntries \cup FailingEntries }

\* the values of Object.entries(sessions)
fileEntries(file) ==
  IF file.type = "object" THEN { file.fields[k] : k \in DOMAIN file.fields }
  ELSE { file.items[i] : i \in DOMAIN file.items }

\* the loop body that accepts every entry that has a messages array
entryPassesMessagesOnly(session) ==
  /\ ~ jsNoProperties(session)
  /\ jsIsArray(jsProp(session, "messages"))

\* the loop body does not throw:
\* !(!session.id || !session.messages || !Array.isArray(session.messages))
entryPasses(session) ==
  /\ ~ jsNoProperties(session)
  /\ jsTruthy(jsProp(session, "id"))
  /\ jsTruthy(jsProp(session, "messages"))
  /\ jsIsArray(jsProp(session, "messages"))

\* the try block reaches setMultiple: JSON.parse returns, the value is an
\* object (typeof [] is 'object' too) and no entry throws
importAccepted(file) ==
  /\ file # NotJson
  /\ file.type \in {"object", "array"}
  /\ \A session \in fileEntries(file) : entryPasses(session)

\* the role that the characters of a role field spell
roleNamed(chars) ==
  CASE chars = <<"user">> -> "user"
    [] chars = <<"model">> -> "model"
    [] chars = <<"context">> -> "context"

\* a message of the file as a stored turn
storedTurn(m) ==
  [role |-> roleNamed(jsProp(m, "role").chars), text |-> jsProp(m, "text").chars]

\* an entry of the file as a stored session; what is not a string or not an
\* array is kept as undefined
storedSession(e) ==
  [id |-> IF jsProp(e, "id").type = "string" THEN jsProp(e, "id").chars ELSE Undefined,
   messages |-> IF jsIsArray(jsProp(e, "messages"))
                  THEN [i \in DOMAIN jsProp(e, "messages").items |->
                          storedTurn(jsProp(e, "messages").items[i])]
                  ELSE Undefined,
   ingestedUrls |-> {}]

\* the key of the item i of an array
indexKey(i) == NumStr(i - 1)

\* the bm_sessions value after setMultiple({ bm_sessions: sessions }): the
\* parsed object, or the parsed array, as it is
importedSessions(file) ==
  IF file.type = "object"
    THEN IF DOMAIN file.fields = {} THEN EmptyObject ELSE
         [id \in { FileKeyId(k) : k \in DOMAIN file.fields } |->
            storedSession(file.fields[CHOOSE k \in DOMAIN file.fields : FileKeyId(k) = id])]
    ELSE [k \in {IS_ARRAY} \cup { indexKey(i) : i \in DOMAIN file.items } |->
            IF k = IS_ARRAY
              THEN [length |-> Len(file.items)]
              ELSE storedSession(file.items[CHOOSE i \in DOMAIN file.items : indexKey(i) = k])]

IdleImport == [pc |-> "idle", file |-> None]

\* a file is chosen in the file input: file.text() is awaited
ImportChoose(i) ==
  /\ MayStart(imp, i)
  /\ \E f \in ImportFiles : imp' = [imp EXCEPT ![i] = [pc |-> "read", file |-> f]]
  /\ UNCHANGED <<now, crt, options, mvars, swt, xvars, cvars, pvars, gvars>>

\* the text is parsed and validated: setMultiple is called, or the catch
\* block shows the error
ImportValidate(i) ==
  /\ imp[i].pc = "read"
  /\ imp' = [imp EXCEPT ![i].pc = IF importAccepted(imp[i].file) THEN "set" ELSE "failed"]
  /\ UNCHANGED <<now, crt, options, mvars, swt, xvars, cvars, pvars, gvars>>

\* chrome.storage.local.set completes; loadSessions is called
ImportWrite(i) ==
  /\ imp[i].pc = "set"
  /\ store' = importedSessions(imp[i].file)
  /\ imp' = [imp EXCEPT ![i].pc = "loadSessions"]
  /\ UNCHANGED <<now, crt, options, mvars, swt, apiKey, activeId, uvars, hvars, xvars, cvars, gvars>>

\* loadSessions, populateSessionDropdown: the option values of the session
\* dropdown are the ids of the stored sessions, or '' of 'No sessions'
loadedOptions(sessions) ==
  IF sessionKeys(sessions) = {}
    THEN {<<>>}
    ELSE { sessions[k].id : k \in sessionKeys(sessions) }

\* loadSessions of the import returns; the toast
ImportLoad(i) ==
  /\ imp[i].pc = "loadSessions"
  /\ options' = loadedOptions(store)
  /\ imp' = [imp EXCEPT ![i].pc = "done"]
  /\ UNCHANGED <<now, crt, mvars, swt, xvars, cvars, pvars, gvars>>

Import(i) == ImportChoose(i) \/ ImportValidate(i) \/ ImportWrite(i) \/ ImportLoad(i)

\* a session with one turn, so that a replaced map shows
InitImport ==
  /\ XIdle /\ CIdle /\ GIdle
  /\ store = [id \in {SESSION_1} |-> pushMessage(NewSession(id), UserTurn(<<"q">>))]
  /\ apiKey = API_KEY
  /\ activeId = SESSION_1
  /\ currentSessionId = SESSION_1
  /\ isLoading = FALSE
  /\ ingestBtnDisabled = FALSE
  /\ inputDisabled = FALSE
  /\ view = None
  /\ ing = <<>> /\ snd = <<>> /\ rem = <<>> /\ cfg = IdleSettings
  /\ now = 0 /\ crt = <<>>
  /\ imp = [i \in Imports |-> IdleImport]
  /\ options = {SESSION_1}
  /\ MIdle
  /\ swt = {}

NextImport == \E i \in Imports : Import(i)

SpecImport == InitImport /\ [][NextImport]_vars

----------------------------------------------------------------------------
(* The session controls of the panel while a send runs: the session        *)
(* dropdown (switchSession), the New Session button (createNewSession) and *)
(* the import of a sessions file. None of them is disabled by              *)
(* setLoadingState.                                                        *)

\* one send, one New Session press and one import
SessionSends == {1}
SessionCreates == {1}
SessionImports == {1}

\* change of the session dropdown to one of its options:
\* switchSession(e.target.value) sets this.currentSessionId and calls
\* setCurrentSessionId; at most MaxPendingSwitches of these writes are
\* in flight
SwitchSession ==
  /\ Cardinality(swt) < MaxPendingSwitches
  /\ \E sid \in options :
       /\ Truthy(sid)
       /\ currentSessionId' = sid
       /\ swt' = swt \cup {sid}
  /\ UNCHANGED <<svars, isLoading, ingestBtnDisabled, inputDisabled, view, hvars,
                 xvars, cvars, gvars, now, crt, imp, options, mvars>>

\* the set of setCurrentSessionId of a dropdown change completes;
\* loadSessionMessages fills the message list
SwitchStored ==
  /\ \E sid \in swt :
       /\ activeId' = sid
       /\ swt' = swt \ {sid}
  /\ UNCHANGED <<store, apiKey, uvars, hvars, xvars, cvars, gvars, now, crt, imp, options, mvars>>

\* the get of loadSessions completes: the dropdown is filled, and
\* switchSession(newSession.id) sets this.currentSessionId and calls
\* setCurrentSessionId
CreateLoad(p) ==
  /\ crt[p].pc = "returned"
  /\ options' = loadedOptions(store)
  /\ currentSessionId' = crt[p].session.id
  /\ crt' = [crt EXCEPT ![p] = [@ EXCEPT !.pc = "setCurrentSessionId", !.sid = crt[p].session.id]]
  /\ UNCHANGED <<now, imp, mvars, swt, svars, isLoading, ingestBtnDisabled, inputDisabled, view,
                 hvars, xvars, cvars, gvars>>

\* switchSession(sid) called by loadCurrentSession in the handler p:
\* this.currentSessionId is set, setCurrentSessionId is called
HandlerSwitch(p, sid, next) ==
  /\ currentSessionId' = sid
  /\ crt' = [crt EXCEPT ![p] = [@ EXCEPT !.pc = next, !.sid = sid]]
  /\ UNCHANGED <<now, imp, options, mvars, swt, svars, isLoading, ingestBtnDisabled, inputDisabled, view,
                 hvars, xvars, cvars, gvars>>

\* the set of setCurrentSessionId of the handler p completes;
\* loadSessionMessages fills the message list
HandlerSwitchStored(p, next) ==
  /\ activeId' = crt[p].sid
  /\ crt' = [crt EXCEPT ![p].pc = next]
  /\ UNCHANGED <<now, imp, options, mvars, swt, store, apiKey, uvars, hvars, xvars, cvars, gvars>>

\* the switch of createNewSession is stored; the toast
CreateSwitchStored(p) ==
  /\ crt[p].pc = "setCurrentSessionId"
  /\ HandlerSwitchStored(p, "done")

\* click on New Session
CreateNewSession(p) ==
  \/ CreateSession(p) \/ CreateBuild(p) \/ CreateSaveRead(p) \/ CreateSaveWrite(p)
  \/ CreateLoad(p) \/ CreateSwitchStored(p)

\* the panel after initializePanel, at millisecond 2
InitSessions ==
  /\ XIdle /\ CIdle /\ GIdle
  /\ store = [id \in {SESSION_1} |-> NewSession(id)]
  /\ apiKey = API_KEY
  /\ activeId = SESSION_1
  /\ currentSessionId = SESSION_1
  /\ isLoading = FALSE
  /\ ingestBtnDisabled = FALSE
  /\ inputDisabled = FALSE
  /\ view = None
  /\ ing = <<>>
  /\ snd = [k \in SessionSends |-> IdleHandler]
  /\ rem = <<>>
  /\ cfg = IdleSettings
  /\ now = 2
  /\ crt = [p \in SessionCreates |-> IdleCreate]
  /\ imp = [i \in SessionImports |-> IdleImport]
  /\ options = {SESSION_1}
  /\ MIdle
  /\ swt = {}

NextSessions ==
  \/ \E k \in SessionSends : Send(k)
  \/ SwitchSession \/ SwitchStored
  \/ \E p \in SessionCreates : CreateNewSession(p)
  \/ \E i \in SessionImports : Import(i)

SpecSessions == InitSessions /\ [][NextSessions]_vars

\* the same panel with no file imported
NextSwitch ==
  \/ \E k \in SessionSends : Send(k)
  \/ SwitchSession \/ SwitchStored
  \/ \E p \in SessionCreates : CreateNewSession(p)

SpecSwitch == InitSessions /\ [][NextSwitch]_vars

----------------------------------------------------------------------------
(* migrateFromCedric (storage.js), started and not awaited when the module  *)
(* is loaded, next to initializePanel of the panel that loaded it. The keys *)
(* bm_sessions (store), bm_api_key (apiKey) and bm_active_session_id        *)
(* (activeId) are modelled; the key bm_settings goes through the same       *)
(* lines. The map without keys stands for a key without value; the object  *)
(* without properties is EmptyObject.                                       *)

\* the module is loaded once per page that imports it
Migrations == 1..MaxMigrations

OLD_API_KEY == <<"c">>
\* the cedric_sessions value of an earlier installation
OldSessions ==
  [id \in {SESSION_9} |-> pushMessage(NewSession(id), UserTurn(<<"o">>))]

IdleMigration == [pc |-> "idle", updates |-> <<>>]

\* old['cedric_sessions'] and old['bm_sessions'] as conditions: a key without
\* value is falsy, every object and every array is truthy
hasSessions(sessions) == sessions # <<>>

\* the updates object built from the snapshot old
migrationUpdates(c, sessions, key, active) ==
  [k \in (IF hasSessions(c.sessions) /\ ~ hasSessions(sessions) THEN {"bm_sessions"} ELSE {})
           \cup (IF Truthy(c.active_session_id) /\ ~ Truthy(active)
                   THEN {"bm_active_session_id"} ELSE {})
           \cup (IF Truthy(c.api_key) /\ ~ Truthy(key) THEN {"bm_api_key"} ELSE {}) |->
     CASE k = "bm_sessions" -> c.sessions
       [] k = "bm_active_session_id" -> c.active_session_id
       [] k = "bm_api_key" -> c.api_key]

\* migrateFromCedric() at module load: chrome.storage.local.get(null) is issued
MigrateStart(m) ==
  /\ MayStart(mig, m)
  /\ mig' = [mig EXCEPT ![m].pc = "get"]
  /\ UNCHANGED <<cedric, orphans, reloading, swt, now, crt, imp, options, xvars, cvars, pvars, gvars>>

\* get(null) returns the snapshot: updates is built; set(updates) is issued
\* when it has a key
MigrateRead(m) ==
  /\ mig[m].pc = "get"
  /\ LET updates == migrationUpdates(cedric, store, apiKey, activeId)
     IN mig' = [mig EXCEPT ![m] = [pc |-> IF DOMAIN updates = {} THEN "done" ELSE "set",
                                   updates |-> updates]]
  /\ UNCHANGED <<cedric, orphans, reloading, swt, now, crt, imp, options, xvars, cvars, pvars, gvars>>

\* the value of the key k after set(updates)
afterSet(updates, k, value) == IF k \in DOMAIN updates THEN updates[k] ELSE value

\* chrome.storage.local.set(updates) completes
MigrateWrite(m) ==
  /\ mig[m].pc = "set"
  /\ store' = afterSet(mig[m].updates, "bm_sessions", store)
  /\ apiKey' = afterSet(mig[m].updates, "bm_api_key", apiKey)
  /\ activeId' = afterSet(mig[m].updates, "bm_active_session_id", activeId)
  /\ mig' = [mig EXCEPT ![m].pc = "done"]
  /\ UNCHANGED <<cedric, orphans, reloading, swt, now, crt, imp, options, uvars, hvars, xvars, cvars, gvars>>

Migrate(m) == MigrateStart(m) \/ MigrateRead(m) \/ MigrateWrite(m)

(* initializePanel *)

\* loadSettings and checkApiKeyStatus: the key is read, the ingest button and
\* the input are enabled when it is set; loadSessions is called
InitCheckApiKey(p) ==
  /\ crt[p].pc = "idle"
  /\ ingestBtnDisabled' = ~ Truthy(apiKey)
  /\ inputDisabled' = ~ Truthy(apiKey)
  /\ crt' = [crt EXCEPT ![p].pc = "loadSessions"]
  /\ UNCHANGED <<now, imp, options, mvars, swt, svars, currentSessionId, isLoading, view, hvars,
                 xvars, cvars, gvars>>

\* loadSessions returns; getSessions is called for the count
InitLoadSessions(p) ==
  /\ crt[p].pc = "loadSessions"
  /\ options' = loadedOptions(store)
  /\ crt' = [crt EXCEPT ![p].pc = "checkSessions"]
  /\ UNCHANGED <<now, imp, mvars, swt, xvars, cvars, pvars, gvars>>

\* Object.keys(await getSessions()).length === 0: createNewSession calls
\* createSession, which issues getSessions; otherwise loadCurrentSession
\* calls getCurrentSessionId
InitCheckSessions(p) ==
  /\ crt[p].pc = "checkSessions"
  /\ crt' = [crt EXCEPT ![p].pc = IF Cardinality(sessionKeys(store)) = 0
                                     THEN "getSessions" ELSE "loadCurrentSession"]
  /\ UNCHANGED <<now, imp, options, mvars, swt, xvars, cvars, pvars, gvars>>

\* the switch of createNewSession is stored; loadCurrentSession calls
\* getCurrentSessionId
InitCreateStored(p) ==
  /\ crt[p].pc = "setCurrentSessionId"
  /\ HandlerSwitchStored(p, "loadCurrentSession")

\* loadCurrentSession: getCurrentSessionId returns; the stored id is switched
\* to, stored session or not; without one getSessions is called
InitLoadCurrent(p) ==
  /\ crt[p].pc = "loadCurrentSession"
  /\ IF Truthy(activeId)
       THEN HandlerSwitch(p, activeId, "setActive")
       ELSE /\ crt' = [crt EXCEPT ![p].pc = "firstSession"]
            /\ UNCHANGED <<now, imp, options, mvars, swt, xvars, cvars, pvars, gvars>>

\* loadCurrentSession: getSessions returns; Object.keys(sessions)[0] is
\* switched to when there is one. The order of the keys is not modelled.
InitLoadFirst(p) ==
  /\ crt[p].pc = "firstSession"
  /\ IF sessionKeys(store) = {}
       THEN /\ crt' = [crt EXCEPT ![p].pc = "done"]
            /\ UNCHANGED <<now, imp, options, mvars, swt, xvars, cvars, pvars, gvars>>
       ELSE \E firstSessionId \in sessionKeys(store) :
              HandlerSwitch(p, firstSessionId, "setActive")

\* the switch of loadCurrentSession is stored; checkSidePanelSupport
InitActiveStored(p) ==
  /\ crt[p].pc = "setActive"
  /\ HandlerSwitchStored(p, "done")

InitializePanel(p) ==
  \/ InitCheckApiKey(p) \/ InitLoadSessions(p) \/ InitCheckSessions(p)
  \/ CreateBuild(p) \/ CreateSaveRead(p) \/ CreateSaveWrite(p)
  \/ CreateLoad(p) \/ InitCreateStored(p)
  \/ InitLoadCurrent(p) \/ InitLoadFirst(p) \/ InitActiveStored(p)

(* clearAllData *)

\* the set of saveSession that the handler p has in flight
pendingSaves(p) == IF crt[p].pc = "set" THEN {crt[p].sessions} ELSE {}

\* the set of setCurrentSessionId that the handler p has in flight
pendingSwitches(p) ==
  IF crt[p].pc \in {"setCurrentSessionId", "setActive"} THEN {crt[p].sid} ELSE {}

\* the set(updates) that the migration m has in flight
pendingSets(m) == IF mig[m].pc = "set" THEN {mig[m].updates} ELSE {}

\* Clear data may be pressed and confirmed again while clear() is awaited:
\* the calls of clear() that the page leaves behind when it is replaced
PendingClears == 0..MaxPendingClears

RECURSIVE callsOf(_)
\* the calls in flight of a sequence of handlers, each as often as issued
callsOf(pending) ==
  IF pending = <<>> THEN EmptyBag ELSE SetToBag(Head(pending)) (+) callsOf(Tail(pending))

\* Clear data, confirmed: chrome.storage.local.clear() completes, the toast
\* is shown and location.reload() is called. The page runs on until the
\* navigation replaces it.
ClearAllData ==
  /\ orphans.unloads < MaxReloads
  /\ store' = <<>> /\ apiKey' = Undefined /\ activeId' = Undefined
  /\ cedric' = NoCedric
  /\ reloading' = TRUE
  /\ UNCHANGED <<mig, orphans, swt, now, crt, imp, options, uvars, hvars, xvars, cvars, gvars>>

\* the navigation of location.reload() replaces the page. The handlers of
\* the old page end where they are; a set or clear that one of them has
\* issued still takes effect. The module is loaded again (migrateFromCedric
\* is called): the migration takes the next slot, or the slot m of a
\* migration of the unloaded page when every slot is taken. A new panel
\* object is constructed.
PageReload ==
  /\ reloading
  /\ \E m \in DOMAIN mig, clears \in PendingClears :
       /\ (\E i \in DOMAIN mig : mig[i].pc = "idle") => MayStart(mig, m)
       /\ clears <= MaxPendingClears - orphans.clears
       /\ mig' = [mig EXCEPT ![m] = [pc |-> "get", updates |-> <<>>]]
       /\ orphans' =
            [saves |-> orphans.saves (+) callsOf([p \in DOMAIN crt |-> pendingSaves(p)]),
             switches |-> orphans.switches (+) SetToBag(swt)
                            (+) callsOf([p \in DOMAIN crt |-> pendingSwitches(p)]),
             sets |-> orphans.sets (+) SetToBag(pendingSets(m)),
             clears |-> orphans.clears + clears,
             unloads |-> orphans.unloads + 1]
  /\ reloading' = FALSE
  /\ swt' = {}
  /\ currentSessionId' = Null /\ isLoading' = FALSE
  /\ ingestBtnDisabled' = TRUE /\ inputDisabled' = TRUE /\ view' = None
  /\ options' = {}
  /\ crt' = [p \in DOMAIN crt |-> IdleCreate]
  /\ UNCHANGED <<svars, cedric, now, imp, hvars, xvars, cvars, gvars>>

\* a set of saveSession issued by a page that has been unloaded completes
UnloadedSaveWrite ==
  /\ \E sessions \in BagToSet(orphans.saves) :
       /\ store' = sessions
       /\ orphans' = [orphans EXCEPT !.saves = @ (-) SetToBag({sessions})]
  /\ UNCHANGED <<cedric, mig, reloading, swt, now, crt, imp, options, apiKey, activeId, uvars,
                 hvars, xvars, cvars, gvars>>

\* a set of setCurrentSessionId issued by a page that has been unloaded
\* completes
UnloadedSwitchStored ==
  /\ \E sid \in BagToSet(orphans.switches) :
       /\ activeId' = sid
       /\ orphans' = [orphans EXCEPT !.switches = @ (-) SetToBag({sid})]
  /\ UNCHANGED <<cedric, mig, reloading, swt, now, crt, imp, options, store, apiKey, uvars,
                 hvars, xvars, cvars, gvars>>

\* a set(updates) of the migration of a page that has been unloaded completes
UnloadedMigrateWrite ==
  /\ \E updates \in BagToSet(orphans.sets) :
       /\ store' = afterSet(updates, "bm_sessions", store)
       /\ apiKey' = afterSet(updates, "bm_api_key", apiKey)
       /\ activeId' = afterSet(updates, "bm_active_session_id", activeId)
       /\ orphans' = [orphans EXCEPT !.sets = @ (-) SetToBag({updates})]
  /\ UNCHANGED <<cedric, mig, reloading, swt, now, crt, imp, options, uvars, hvars, xvars,
                 cvars, gvars>>

\* a clear() issued by a page that has been unloaded completes: every key
\* loses its value; the continuation with location.reload() is gone with the
\* page, the page that is loaded now stays as it is
UnloadedClear ==
  /\ orphans.clears > 0
  /\ store' = <<>> /\ apiKey' = Undefined /\ activeId' = Undefined
  /\ cedric' = NoCedric
  /\ orphans' = [orphans EXCEPT !.clears = @ - 1]
  /\ UNCHANGED <<mig, reloading, swt, now, crt, imp, options, uvars, hvars, xvars, cvars, gvars>>

(* SettingsStorage.removeApiKey *)

\* chrome.storage.local.remove('bm_api_key') completes
RemoveApiKey ==
  /\ apiKey' = Undefined
  /\ UNCHANGED <<store, activeId, uvars, hvars, xvars, cvars, gvars, kvars>>

\* a page opens the panel: an installation with or without cedric_* values,
\* with or without bm_* values
InitMigrate ==
  /\ XIdle /\ CIdle /\ GIdle
  /\ store \in {<<>>, EmptyObject, [id \in {SESSION_2} |-> NewSession(id)]}
  /\ apiKey \in {Undefined, API_KEY}
  /\ activeId \in IF sessionKeys(store) = {} THEN {Undefined}
                                              ELSE {Undefined, SESSION_1, SESSION_2}
  /\ cedric \in {[sessions |-> s, api_key |-> k, active_session_id |-> a] :
                   s \in {<<>>, EmptyObject, OldSessions}, k \in {Undefined, OLD_API_KEY},
                   a \in {Undefined, SESSION_9}}
  /\ currentSessionId = Null /\ isLoading = FALSE
  /\ ingestBtnDisabled = TRUE /\ inputDisabled = TRUE /\ view = None
  /\ ing = <<>> /\ snd = <<>> /\ rem = <<>> /\ cfg = IdleSettings
  /\ now = 1
  /\ crt = [p \in SessionCreates |-> IdleCreate]
  /\ imp = <<>>
  /\ options = {}
  /\ swt = {}
  /\ orphans = NoOrphans
  /\ reloading = FALSE
  /\ mig = [m \in Migrations |-> IdleMigration]

NextMigrate ==
  \/ \E m \in Migrations : Migrate(m)
  \/ \E p \in SessionCreates : InitializePanel(p)
  \/ ClearAllData \/ PageReload
  \/ UnloadedSaveWrite \/ UnloadedSwitchStored \/ UnloadedMigrateWrite \/ UnloadedClear
  \/ RemoveApiKey

SpecMigrate == InitMigrate /\ [][NextMigrate]_vars

----------------------------------------------------------------------------
(* Claims about the relevance extractor, under SpecExtract *)

Returned == xpc = "returned"

\* C1: whichever path pickRelevantSnippets takes, the string it returns has
\* length at most maxChars.
C1_OutputBounded == Returned => Len(out) <= maxChars

\* the merged-windows path with two windows, the output cut exactly at the cap
C1_Witness ==
  /\ Returned
  /\ Len(mergedWindows(query, markdown, perHitChars)) >= 2
  /\ maxChars > 0
  /\ Len(out) = maxChars

RECURSIVE Segments(_)
\* s.split(MARKER)
Segments(s) ==
  LET i == indexOf(s, MARKER, 0)
  IN IF i = -1 THEN <<s>>
     ELSE <<slice(s, 0, i)>> \o Segments(slice(s, i + Len(MARKER), Len(s)))

\* C4: every segment of the result between "\n...\n" markers (the first and
\* the last included) is a contiguous substring of the document, also when
\* the result was cut at maxChars.
C4_SegmentsAreSubstrings ==
  Returned => \A k \in 1..Len(Segments(out)) : includes(markdown, Segments(out)[k])

\* no three consecutive word-like characters, so no token of length >= 3
NoLongToken(q) ==
  ~ \E i \in 1..(Len(q) - 2) : \A j \in 0..2 : InTermClass(q[i + j])

\* C5: for an empty query, or one with no token of length >= 3, the result
\* is exactly the first maxChars characters of the document, the empty
\* document included.
C5_EmptyQueryPrefix ==
  Returned /\ (query = <<>> \/ NoLongToken(query))
    => out = slice(markdown, 0, maxChars)

\* a non-empty query of short tokens on a document longer than the cap
C5_Witness ==
  /\ Returned
  /\ query # <<>> /\ NoLongToken(query)
  /\ maxChars > 0 /\ Len(markdown) > maxChars
  /\ out = slice(markdown, 0, maxChars)

\* no term of the query occurs in the lower-cased document
NoTermOccurs(q, md) ==
  \A terms \in {queryTerms(q)} : \A lc \in {toLowerCase(md)} :
    \A i \in 1..Len(terms) : ~ includes(lc, terms[i])

\* C6: when the query has terms and none of them occurs case-insensitively
\* in the document, the result is exactly the first maxChars characters of
\* the document, as for an empty query.
C6_NoMatchPrefix ==
  Returned /\ queryTerms(query) # <<>> /\ NoTermOccurs(query, markdown)
    => out = slice(markdown, 0, maxChars)

\* a query with a term, a non-empty document longer than the cap without it
C6_Witness ==
  /\ Returned
  /\ queryTerms(query) # <<>> /\ NoTermOccurs(query, markdown)
  /\ maxChars > 0 /\ Len(markdown) > maxChars
  /\ out = slice(markdown, 0, maxChars)

----------------------------------------------------------------------------
(* Claims about the compiler, under SpecCompile and SpecCompileCtx *)

Compiled == cpc = "compiled"

TextOf(e) == e.parts[1].text

StartsWith(s, p) == Len(s) >= Len(p) /\ SubSeq(s, 1, Len(p)) = p

\* a context-derived entry: a user-role entry whose text starts with the header
IsContextEntry(e) == e.role = "user" /\ StartsWith(TextOf(e), PAGE_CONTEXT)

ContextEntries ==
  {i \in DOMAIN compiled.contents : IsContextEntry(compiled.contents[i])}
HistoryEntries ==
  {i \in DOMAIN compiled.contents : ~ IsContextEntry(compiled.contents[i])}

RoleCount(msgs, roles) == Len(filterRole(msgs, roles))

\* C2: for any turn sequence the compiled contents hold at most 5
\* context-derived entries and at most 8 history (user/model) entries.
C2_TurnWindowBound ==
  Compiled => Cardinality(ContextEntries) <= 5 /\ Cardinality(HistoryEntries) <= 8

\* more than 5 context turns and more than 8 chat turns, both windows full
C2_Witness ==
  /\ Compiled
  /\ RoleCount(messages, {"context"}) > 5
  /\ RoleCount(messages, {"user", "model"}) > 8
  /\ Cardinality(ContextEntries) = 5
  /\ Cardinality(HistoryEntries) = 8

\* C3: in the compiled contents every context-derived entry comes before
\* every history entry, however the turns were interleaved in the input.
C3_ContextBeforeHistory ==
  Compiled =>
    \A i \in ContextEntries : \A j \in HistoryEntries : i < j

\* a chat turn stored before a context turn, both in the compiled contents
C3_Witness ==
  /\ Compiled
  /\ \E i, j \in DOMAIN messages :
       i < j /\ messages[i].role \in {"user", "model"} /\ messages[j].role = "context"
  /\ ContextEntries # {} /\ HistoryEntries # {}

PER_HIT_CHARS == 1200
MAX_CHARS == 6000

\* the text of the last user turn of the whole sequence, '' when there is none
lastUserQuery(msgs) ==
  LET us == filterRole(msgs, {"user"})
  IN IF us = <<>> THEN <<>> ELSE Or(Get(us[Len(us)], "text"), <<>>)

\* the context turns the compiler selects, in order
SelectedContexts(msgs) == lastN(filterRole(msgs, {"context"}), MAX_CONTEXT)

\* the part of a context entry's text behind the header and the blank line
ExcerptOf(e) ==
  LET t == TextOf(e)
  IN slice(t, indexOf(t, <<"\n", "\n">>, 0) + 2, Len(t))

\* C7: for each selected context turn whose full text (markdown) is present,
\* the excerpt in its compiled entry is pickRelevantSnippets applied to the
\* last user query and that full text; essentialMarkdown is used only when
\* the full text is absent.
C7_ExcerptFromFullText ==
  Compiled =>
    \A i \in 1..Len(SelectedContexts(messages)) :
      LET m == SelectedContexts(messages)[i]
      IN Truthy(m.markdown) =>
           ExcerptOf(compiled.contents[i])
             = pickRelevantSnippets(lastUserQuery(messages), m.markdown,
                                    PER_HIT_CHARS, MAX_CHARS)

\* C8: when a term of the most recent user message occurs in the full text
\* of a context turn, the compiled 'PAGE CONTEXT' entry of that turn
\* contains the term literally.
C8_TermInContextEntry ==
  Compiled =>
    \A i \in 1..Len(SelectedContexts(messages)) :
      LET m == SelectedContexts(messages)[i]
          terms == matchTerms(lastUserQuery(messages), 0)
      IN \A k \in 1..Len(terms) :
           Truthy(m.markdown) /\ includes(m.markdown, terms[k])
             => /\ IsContextEntry(compiled.contents[i])
                /\ includes(TextOf(compiled.contents[i]), terms[k])

----------------------------------------------------------------------------
(* Claims about the panel's handlers, under SpecPanel *)

\* the positions of the context turns with url u in a message list
ContextTurnsOf(msgs, u) ==
  { i \in DOMAIN msgs : msgs[i].role = "context" /\ Get(msgs[i], "url") = u }

\* C9: no stored session contains two context turns with the same url while
\* that url is registered in the session's ingestedUrls, whatever the
\* interleaving of the ingest, remove and send handlers.
C9_OneContextTurnPerUrl ==
  \A id \in DOMAIN store :
    \A u \in store[id].ingestedUrls :
      Cardinality(ContextTurnsOf(store[id].messages, u)) <= 1

\* the turns whose addMessage has returned to its handler
AddedTurns ==
  { contextMessage(ing[p].arg) : p \in { q \in Ingests : ing[q].pc \in {"render", "done"} } }
    \cup { UserTurn(snd[k].arg) :
             k \in { j \in Sends : snd[j].pc \in {"getApiKey", "getSession", "request",
                                                   "model_getSession", "model_read",
                                                   "model_write", "done"} } }
    \cup { ModelTurn(<<"r">> \o NumStr(k)) : k \in { j \in Sends : snd[j].pc = "done" } }

SessionTurns == { store[SESSION_1].messages[i] : i \in DOMAIN store[SESSION_1].messages }

\* C10: as long as no source has been removed, every turn whose addMessage
\* has completed is present in the stored session, also when addMessage
\* operations of an ingest and of a send overlapped.
C10_AddedTurnsKept ==
  (\A r \in Removes : rem[r].pc = "idle") => AddedTurns \subseteq SessionTurns

\* the turns of a stored session other than the context turns with url u
OtherTurns(sessions, u) == dropContext(sessions[SESSION_1], u).messages

\* a step in which a saveSession of remove handler r writes bm_sessions
RemoveWrites(r) ==
  /\ rem[r].pc \in {"save1_write", "save2_write"}
  /\ rem'[r].pc # rem[r].pc

\* C11: removing the source with url u leaves every turn that is not a
\* context turn of u stored, in the same order: with no ingest and no send
\* running, a write of the remove handler changes the stored messages only
\* by dropping context turns of u.
C11_RemoveKeepsOtherTurns ==
  [][ \A r \in Removes :
        ( /\ RemoveWrites(r)
          /\ \A p \in Ingests : Finished(ing[p])
          /\ \A k \in Sends : Finished(snd[k]) )
          => OtherTurns(store', rem[r].arg.url) = OtherTurns(store, rem[r].arg.url) ]_vars

----------------------------------------------------------------------------
(* Claims about sendMessage, under SpecSends *)

\* the executions of sendMessage between isLoading = true and the finally block
InFlight == { k \in DOMAIN snd : ~ Finished(snd[k]) }

\* C12: at most one execution of sendMessage is between setting isLoading
\* and its finally block, whatever send presses, settings saves and ingests
\* happen while a request is outstanding.
C12_OneRequestInFlight == Cardinality(InFlight) <= 1

\* a request is outstanding, saving the settings has enabled the input again
\* and an ingest is running: the next press meets the isLoading guard
C12_Witness ==
  /\ snd[1].pc = "request"
  /\ snd[2].pc = "idle"
  /\ ~ inputDisabled
  /\ isLoading
  /\ \E p \in DOMAIN ing : ~ Finished(ing[p])

----------------------------------------------------------------------------
(* Claims about callGemini, under SpecCall *)

IsFailure(r) == "message" \in DOMAIN r

\* the failure kinds of the completion client
IsClientFailure(r) == IsFailure(r) /\ r.status \in {400, 401, 403}
IsRetriedKind(r) ==
  IsFailure(r) /\ (r.status = 0 \/ r.status = 429 \/ r.status >= 500)

\* attempt i was the last one and the call rejected with its failure
RejectedWith(i) ==
  i = Len(requests) /\ rpc = "rejected" /\ settled = Rejected(requests[i])

\* C13: an attempt that fails with HTTP 400, 401 or 403 is never followed by
\* another attempt: the call rejects with that failure, after exactly one
\* attempt when the first attempt failed this way.
C13_ClientFailureNotRetried ==
  \A i \in DOMAIN requests : IsClientFailure(requests[i]) => RejectedWith(i)

\* the first attempt answered 401, the call has rejected
C13_Witness ==
  /\ Len(requests) = 1
  /\ IsFailure(requests[1]) /\ requests[1].status = 401
  /\ RejectedWith(1)

\* C14: an attempt that fails with HTTP 429, HTTP 5xx or a timeout, made
\* while fewer than 3 attempts have been made, is retried whatever the
\* error detail says: the call does not reject with it.
C14_TransientFailureRetried ==
  \A i \in DOMAIN requests :
    (IsRetriedKind(requests[i]) /\ i < maxRetries) => ~ RejectedWith(i)

\* C15: one call makes at most 3 request attempts, and none after a
\* successful one.
C15_AtMostThreeAttempts ==
  /\ Len(requests) <= 3
  /\ \A i \in DOMAIN requests :
       requests[i] = okResponse => (i = Len(requests) /\ rpc = "resolved")

\* two failed attempts with their delays, then a third attempt that succeeds
C15_Witness ==
  /\ Len(requests) = 3
  /\ Len(delays) = 2
  /\ IsRetriedKind(requests[1]) /\ IsRetriedKind(requests[2])
  /\ requests[3] = okResponse
  /\ rpc = "resolved"

----------------------------------------------------------------------------
(* Claims about parseGeminiResponse, under SpecParse *)

Parsed == parsed # None

\* the candidates array of a response, the parts array of its first
\* candidate and the text of its first part; undefined where the path ends
CandidatesOf(r) ==
  IF jsIsArray(jsProp(r, "candidates")) THEN jsProp(r, "candidates") ELSE jsUndefined

FirstPartsOf(r) ==
  LET cs == CandidatesOf(r)
      ps == IF jsIsArray(cs) THEN jsProp(jsProp(jsFirst(cs), "content"), "parts")
            ELSE jsUndefined
  IN IF jsIsArray(ps) THEN ps ELSE jsUndefined

HasFirstPart(r) ==
  jsIsArray(FirstPartsOf(r)) /\ jsFirst(FirstPartsOf(r)).type = "object"

FirstTextOf(r) == jsProp(jsFirst(FirstPartsOf(r)), "text")

\* C16: parseGeminiResponse never returns the empty string; a response
\* with no candidates, a first candidate with no content parts and a first
\* part with empty text each throw, with three different messages.
C16_NoEmptyText ==
  Parsed =>
    /\ "returned" \in DOMAIN parsed => parsed.returned # jsString(<<>>)
    /\ CandidatesOf(response) = jsArray(<<>>) => parsed = parseFailure(NO_RESPONSE)
    /\ FirstPartsOf(response) = jsArray(<<>>) => parsed = parseFailure(NO_PARTS)
    /\ (HasFirstPart(response) /\ FirstTextOf(response) = jsString(<<>>))
         => parsed = parseFailure(NO_TEXT)
    /\ Cardinality({parseFailure(NO_RESPONSE), parseFailure(NO_PARTS),
                    parseFailure(NO_TEXT)}) = 3

\* a response whose first part has the text '' has been parsed
C16_Witness ==
  /\ Parsed
  /\ HasFirstPart(response)
  /\ FirstTextOf(response) = jsString(<<>>)
  /\ "thrown" \in DOMAIN parsed

----------------------------------------------------------------------------
(* Further claims about the compiler, under SpecCompileCtx and SpecCompile *)

\* the position of the last turn with role user, 0 when there is none
LastUserIndex(msgs) ==
  LET us == { i \in DOMAIN msgs : msgs[i].role = "user" }
  IN IF us = {} THEN 0 ELSE CHOOSE i \in us : \A j \in us : j <= i

\* the text of the turn at that position, '' when there is none
QueryByPosition(msgs) ==
  IF LastUserIndex(msgs) = 0 THEN <<>>
  ELSE Or(Get(msgs[LastUserIndex(msgs)], "text"), <<>>)

\* C17: the query given to the extractor is the text of the last user turn
\* of the whole sequence, '' when there is no user turn: the excerpt of
\* every context turn with full text is the extractor's output for that
\* query.
C17_QueryIsLastUserText ==
  Compiled =>
    \A i \in 1..Len(SelectedContexts(messages)) :
      LET m == SelectedContexts(messages)[i]
      IN Truthy(m.markdown) =>
           ExcerptOf(compiled.contents[i])
             = pickRelevantSnippets(QueryByPosition(messages), m.markdown,
                                    PER_HIT_CHARS, MAX_CHARS)

IsChatTurn(m) == m.role \in {"user", "model"}

\* the number of user and model turns at position i or behind it
ChatTurnsFrom(msgs, i) ==
  Cardinality({ j \in DOMAIN msgs : j >= i /\ IsChatTurn(msgs[j]) })

\* C18: the history entries are exactly the last 8 user and model turns (all
\* of them when there are fewer), in their original order, each with its
\* role and text unchanged.
C18_HistoryIsLastEightTurns ==
  Compiled =>
    LET n == Len(compiled.contents)
    IN /\ Cardinality(HistoryEntries) = Min2(8, RoleCount(messages, {"user", "model"}))
       /\ \A i \in DOMAIN messages :
            (IsChatTurn(messages[i]) /\ ChatTurnsFrom(messages, i) <= 8) =>
              compiled.contents[n + 1 - ChatTurnsFrom(messages, i)]
                = [role |-> messages[i].role, parts |-> <<[text |-> messages[i].text]>>]

\* more than 8 chat turns of both roles with context turns between them; the
\* oldest chat turn is left out, 8 are sent
C18_Witness ==
  /\ Compiled
  /\ RoleCount(messages, {"user", "model"}) > 8
  /\ RoleCount(messages, {"model"}) > 2
  /\ \E i, j \in DOMAIN messages :
       i < j /\ messages[i].role = "context" /\ IsChatTurn(messages[j])
  /\ Cardinality(HistoryEntries) = 8

\* the number of context turns at position i or behind it
ContextTurnsFrom(msgs, i) ==
  Cardinality({ j \in DOMAIN msgs : j >= i /\ msgs[j].role = "context" })

\* C19: the context entries are the entries of the last 5 context turns by
\* position, in that order, whatever the turns' timestamps; of 10 context
\* turns the 5 appended last appear.
C19_ContextIsLastFiveByPosition ==
  Compiled =>
    LET k == Min2(5, RoleCount(messages, {"context"}))
    IN /\ Cardinality(ContextEntries) = k
       /\ \A i \in DOMAIN messages :
            (messages[i].role = "context" /\ ContextTurnsFrom(messages, i) <= 5) =>
              compiled.contents[k + 1 - ContextTurnsFrom(messages, i)]
                = contextEntry(messages[i])

\* 10 context turns; one that is left out carries a later timestamp than one
\* that is sent
C19_Witness ==
  /\ Compiled
  /\ RoleCount(messages, {"context"}) = 10
  /\ \E i, j \in DOMAIN messages :
       /\ messages[i].role = "context" /\ messages[j].role = "context"
       /\ ContextTurnsFrom(messages, i) > 5 /\ ContextTurnsFrom(messages, j) <= 5
       /\ messages[i].timestamp = <<"9">> /\ messages[j].timestamp = <<"0">>
  /\ Cardinality(ContextEntries) = 5

\* C22: every entry of the compiled contents has role user or model, none
\* has role context, and the entries of the context turns have role user.
C22_RolesOnTheWire ==
  Compiled =>
    /\ \A i \in DOMAIN compiled.contents : compiled.contents[i].role \in {"user", "model"}
    /\ \A i \in 1..Min2(5, RoleCount(messages, {"context"})) :
         /\ compiled.contents[i].role = "user"
         /\ StartsWith(TextOf(compiled.contents[i]), PAGE_CONTEXT)

\* context, user and model turns stored, entries of all three sent
C22_Witness ==
  /\ Compiled
  /\ RoleCount(messages, {"context"}) > 0
  /\ \E i \in DOMAIN compiled.contents : compiled.contents[i].role = "model"
  /\ \E i \in HistoryEntries : compiled.contents[i].role = "user"
  /\ ContextEntries # {}

\* C23: for a context turn without full text the excerpt is the summary cut
\* to 6000 characters, with no windowing and whatever the last user query
\* is: a summary shorter than that appears unchanged.
C23_SummaryFallbackUncut ==
  Compiled =>
    \A i \in 1..Len(SelectedContexts(messages)) :
      LET m == SelectedContexts(messages)[i]
      IN ~ Truthy(m.markdown) =>
           ExcerptOf(compiled.contents[i]) = slice(Or(m.essentialMarkdown, <<>>), 0, MAX_CHARS)

\* C24: compiling the empty sequence of turns gives empty contents and the
\* fixed system instruction.
C24_EmptySequenceCompiles ==
  (Compiled /\ messages = <<>>) =>
    /\ compiled.contents = <<>>
    /\ compiled.systemInstruction = [parts |-> <<[text |-> SYSTEM_LINES]>>]

C24_Witness == Compiled /\ messages = <<>> /\ Len(compiled.contents) = 0

(* Claims about turns that lack fields, under SpecCompileSparse *)

\* the part of a context entry's text before the blank line
HeaderOf(e) ==
  LET t == TextOf(e)
  IN slice(t, 0, indexOf(t, <<"\n", "\n">>, 0))

\* C25: a context turn that lacks title, url or timestamp compiles to an
\* entry whose header shows Untitled for a missing title and Unknown for a
\* missing url or a missing timestamp.
C25_PlaceholdersInHeader ==
  Compiled =>
    /\ Len(compiled.contents) = Len(messages)
    /\ \A i \in 1..Len(SelectedContexts(messages)) :
         LET m == SelectedContexts(messages)[i]
         IN HeaderOf(compiled.contents[i]) =
              PAGE_CONTEXT \o <<" ", EM_DASH, " ">>
                \o (IF "title" \in DOMAIN m THEN m.title ELSE UNTITLED)
                \o <<" ", "(">>
                \o (IF "url" \in DOMAIN m THEN m.url ELSE UNKNOWN)
                \o <<")", " ", EM_DASH, " ">> \o CAPTURED \o <<" ">>
                \o (IF "timestamp" \in DOMAIN m THEN m.timestamp ELSE UNKNOWN)

\* a JavaScript string, as opposed to undefined or null
IsString(v) == v # Undefined /\ v # Null

\* the user and model turns the compiler selects, in order
SelectedChatTurns(msgs) == lastN(filterRole(msgs, {"user", "model"}), MAX_TURNS)

\* C26: whatever optional fields the turns lack, every entry of the compiled
\* contents carries a string as its text, and the entry of a user or model
\* turn without text carries the empty string.
C26_EveryEntryHasStringText ==
  Compiled =>
    /\ Len(compiled.contents)
         = Len(SelectedContexts(messages)) + Len(SelectedChatTurns(messages))
    /\ \A i \in DOMAIN compiled.contents : IsString(TextOf(compiled.contents[i]))
    /\ \A j \in 1..Len(SelectedChatTurns(messages)) :
         LET t == SelectedChatTurns(messages)[j]
             e == compiled.contents[Len(SelectedContexts(messages)) + j]
         IN TextOf(e) = (IF "text" \in DOMAIN t THEN t.text ELSE <<>>)

----------------------------------------------------------------------------
(* Further claims about the relevance extractor, under SpecExtract *)

RECURSIVE WithoutRepeats(_, _)
\* the tokens ts in order, a token already in seen left out
WithoutRepeats(ts, seen) ==
  IF ts = <<>> THEN <<>>
  ELSE IF Head(ts) \in seen THEN WithoutRepeats(Tail(ts), seen)
       ELSE <<Head(ts)>> \o WithoutRepeats(Tail(ts), seen \cup {Head(ts)})

\* the first 12 distinct tokens of the lower-cased query
DistinctTerms(q) ==
  slice(WithoutRepeats(matchTerms(toLowerCase(q), 0), {}), 0, 12)

\* the result of scanning the document for the given terms
ExtractWith(terms, md, perHit, maxC) ==
  IF md = <<>> THEN <<>>
  ELSE IF terms = <<>> THEN slice(md, 0, maxC)
  ELSE LET hits == collectHits(md, toLowerCase(md), terms, perHit)
       IN IF hits = <<>> THEN slice(md, 0, maxC)
          ELSE slice(emitWindows(md, mergeHits(sortHits(hits), <<>>), <<>>, perHit, maxC),
                     0, maxC)

\* C27: the terms the extractor scans for are the first 12 distinct tokens
\* of length >= 3 of the lower-cased query, a repeated token counting once:
\* the result is that of scanning for exactly these terms.
C27_FirstTwelveDistinctTerms ==
  Returned =>
    /\ {queryTerms(query)[i] : i \in 1..Len(queryTerms(query))}
         = {DistinctTerms(query)[i] : i \in 1..Len(DistinctTerms(query))}
    /\ out = ExtractWith(DistinctTerms(query), markdown, perHitChars, maxChars)

RECURSIVE JoinWindows(_, _, _)
\* the windows of the document in order, each cut to perHit characters, the
\* marker between two consecutive windows and nowhere else
JoinWindows(md, windows, perHit) ==
  IF windows = <<>> THEN <<>>
  ELSE LET w == slice(md, windows[1][1], Min2(windows[1][2], windows[1][1] + perHit))
       IN IF Len(windows) = 1 THEN w
          ELSE w \o MARKER \o JoinWindows(md, Tail(windows), perHit)

\* C28: when a term matches, the result is the merged windows in ascending
\* order of start, each cut to perHitChars, with the marker between
\* consecutive windows only (none behind the last one), within maxChars.
C28_MarkerBetweenWindows ==
  Returned /\ mergedWindows(query, markdown, perHitChars) # <<>> =>
    out = slice(JoinWindows(markdown, mergedWindows(query, markdown, perHitChars), perHitChars),
                0, maxChars)

\* the offsets of the document that the output loop reads for the window w
EmittedOffsets(w, perHit) == w[1]..(Min2(w[2], w[1] + perHit) - 1)

\* C29: after the merge step the windows are in ascending order of start and
\* two consecutive windows are more than 50 characters apart, so that no
\* offset of the document is emitted twice.
C29_MergedWindowsApart ==
  Returned =>
    \A m \in {mergedWindows(query, markdown, perHitChars)} :
       /\ \A i \in 1..(Len(m) - 1) :
            /\ m[i][1] < m[i + 1][1]
            /\ m[i + 1][1] > m[i][2] + 50
       /\ \A i, j \in 1..Len(m) :
            i # j => EmittedOffsets(m[i], perHitChars) \cap EmittedOffsets(m[j], perHitChars) = {}

\* two windows far apart, each merged from several hits, both in the result
C29_Witness ==
  /\ Returned
  /\ Len(mergedWindows(query, markdown, perHitChars)) = 2
  /\ Len(collectHits(markdown, toLowerCase(markdown), queryTerms(query), perHitChars)) > 2
  /\ Len(Segments(out)) = 3

----------------------------------------------------------------------------
(* Claims about createSession, under SpecCreate *)

\* C30: the id createSession gives a new session differs from the id of
\* every session in the store, also within one millisecond of the clock, so
\* that the write of a created session replaces no stored session.
C30_CreatedIdIsFresh ==
  [][\A p \in Creates :
       /\ (crt[p].pc = "getSessions" /\ crt'[p].pc = "saveSession")
            => crt'[p].session.id \notin DOMAIN store
       /\ (crt[p].pc = "set" /\ crt'[p].pc = "returned")
            => crt[p].session.id \notin DOMAIN store]_vars

----------------------------------------------------------------------------
(* Further claims about parseGeminiResponse, under SpecParse *)

\* a response object whose candidates list is empty
EmptyCandidates(r) == r.type = "object" /\ jsProp(r, "candidates") = jsArray(<<>>)

\* a response object without a candidates field
NoCandidatesField(r) == r.type = "object" /\ "candidates" \notin DOMAIN r.fields

\* C32 as stated: for a response whose candidates list is empty, or a
\* response object without a candidates field, the parser returns ''.
C32_EmptyCandidatesGiveEmptyText ==
  (Parsed /\ (EmptyCandidates(response) \/ NoCandidatesField(response)))
    => parsed = ReturnedValue(jsString(<<>>))

----------------------------------------------------------------------------
(* Further claims about callGemini, under SpecCall *)

\* C40: the delay waited before attempt k + 1 (k = 1, 2) is at least
\* min(1000 * 2^(k-1), 10000) ms and less than that plus 200 ms, so no delay
\* exceeds 10200 ms and a delay is never more than 200 ms shorter than the
\* one before it.
C40_DelayBounds ==
  /\ Len(delays) <= 2
  /\ \A k \in 1..Len(delays) :
       LET floor == IF 1000 * 2 ^ (k - 1) < 10000 THEN 1000 * 2 ^ (k - 1) ELSE 10000
       IN /\ delays[k] >= floor
          /\ delays[k] < floor + 200
          /\ delays[k] <= 10200
  /\ \A k \in 1..(Len(delays) - 1) : delays[k + 1] >= delays[k] - 200

\* two retries: the first delay with the largest jitter, the second with none
C40_Witness ==
  /\ rpc = "rejected"
  /\ Len(requests) = 3
  /\ delays = <<1199, 2000>>

----------------------------------------------------------------------------
(* Further claims about sendMessage, under SpecLockFair and SpecSends *)

\* sendMessage k has set isLoading and has not reached the end of finally
SendRunning(k) == ~ Finished(snd[k])

\* C36: every sendMessage that set isLoading to true sets it back to false,
\* on success and on every failure path, provided each awaited operation
\* settles: a running send ends, and with no send running isLoading is false.
C36_LoadingEventuallyCleared ==
  /\ \A k \in SendPresses : SendRunning(k) ~> (snd[k].pc \in {"done", "failed"} /\ ~ isLoading)
  /\ []((\A k \in SendPresses : ~ SendRunning(k)) => ~ isLoading)

\* one send has failed, another has succeeded, and the lock is free
C36_Witness ==
  /\ \E k \in SendPresses : snd[k].pc = "failed"
  /\ \E k \in SendPresses : snd[k].pc = "done"
  /\ ~ isLoading

\* how often the turn t occurs in the sequence msgs
TurnCount(msgs, t) == Cardinality({i \in DOMAIN msgs : msgs[i] = t})

\* the user turn and the model turn of send k
UserTurnOf(k) == UserTurn(<<"q">> \o NumStr(k))
ModelTurnOf(k) == ModelTurn(<<"r">> \o NumStr(k))

\* a step in which send k fails behind the write of its user turn: no API
\* key, session not found, the request or the parse of its response failed
SendFailsLate(k) ==
  /\ snd[k].pc \in {"getApiKey", "getSession", "request"}
  /\ snd'[k].pc = "failed"

\* C37: a send that fails after its user turn was stored has written that
\* one user turn and writes nothing else: the failure leaves the store as it
\* is, no model turn of the send is ever stored, and every stored model turn
\* is the answer of a send, never an error text.
C37_FailedSendStoresUserTurnOnly ==
  /\ [][\A k \in SendPresses :
          /\ (snd[k].pc = "user_write" /\ snd'[k].pc = "getApiKey")
               => TurnCount(store'[snd[k].sid].messages, UserTurnOf(k)) = 1
          /\ SendFailsLate(k) => store' = store]_vars
  /\ [](\A k \in SendPresses : \A id \in DOMAIN store :
          /\ snd[k].pc = "failed" => TurnCount(store[id].messages, ModelTurnOf(k)) = 0
          /\ \A i \in DOMAIN store[id].messages :
               store[id].messages[i].role = "model"
                 => \E j \in SendPresses : store[id].messages[i] = ModelTurnOf(j))

\* a send has failed and its user turn is the last turn of the session
C37_Witness ==
  \E k \in SendPresses :
    /\ snd[k].pc = "failed"
    /\ store[SESSION_1].messages # <<>>
    /\ store[SESSION_1].messages[Len(store[SESSION_1].messages)] = UserTurnOf(k)

----------------------------------------------------------------------------
(* Further claims about ingestCurrentPage, under SpecSends and SpecPanel *)

\* the urls of the context turns of a session
ContextUrls(session) ==
  { session.messages[i].url :
      i \in { j \in DOMAIN session.messages : session.messages[j].role = "context" } }

\* C38: when content extraction answers with an error, ingestCurrentPage
\* leaves the session as it is: the step writes nothing, and with this the
\* only ingest the session has no registered url and no context turn.
C38_ExtractionErrorWritesNothing ==
  /\ [][\A p \in DOMAIN ing :
          (ing[p].pc = "extract" /\ ing'[p].pc = "failed") => store' = store]_vars
  /\ []((\A p \in DOMAIN ing : ing[p].pc = "failed" /\ ing[p].arg = None)
          => \A id \in DOMAIN store :
               store[id].ingestedUrls = {} /\ ContextUrls(store[id]) = {})

\* the extraction of the ingest failed while the session already held turns
C38_Witness ==
  /\ \E p \in DOMAIN ing : ing[p].pc = "failed" /\ ing[p].arg = None
  /\ store[SESSION_1].messages # <<>>

\* C34: whenever no ingest and no remove-source handler is running, the urls
\* of the context turns stored in a session are the urls registered in its
\* ingestedUrls, also after a storage write of an ingest failed between the
\* registration of the url and the append of the turn.
C34_RegistryMatchesContextTurns ==
  ((\A p \in DOMAIN ing : Finished(ing[p])) /\ (\A r \in DOMAIN rem : Finished(rem[r])))
    => \A id \in DOMAIN store : ContextUrls(store[id]) = store[id].ingestedUrls

----------------------------------------------------------------------------
(* Claims about the import of a sessions file, under SpecImport *)

\* the parsed file has entries at all
HasEntries(file) == file # None /\ file # NotJson /\ file.type \in {"object", "array"}

\* the entry has no id field, or no messages field that is an array
LacksIdOrMessages(e) ==
  \/ e.type # "object"
  \/ "id" \notin DOMAIN e.fields
  \/ "messages" \notin DOMAIN e.fields
  \/ e.fields["messages"].type # "array"

\* the file holds an entry without an id or without a messages array
HasLackingEntry(file) ==
  HasEntries(file) /\ \E e \in fileEntries(file) : LacksIdOrMessages(e)

\* C39: no step of an import of a file in which some entry lacks an id or a
\* messages array changes the stored sessions, and the stored sessions change
\* in an import only by being replaced with the content of a file in which
\* every entry has a non-empty id and a messages array.
C39_InvalidImportKeepsSessions ==
  [][ \A i \in Imports :
        imp'[i] # imp[i] =>
          /\ HasLackingEntry(imp'[i].file) => store' = store
          /\ store' # store =>
               /\ HasEntries(imp[i].file)
               /\ \A e \in fileEntries(imp[i].file) :
                    /\ ~ LacksIdOrMessages(e)
                    /\ e.fields["id"] \notin {jsNull, jsUndefined, jsString(<<>>)}
               /\ store' = importedSessions(imp[i].file) ]_vars

\* one import refused a file with an entry that lacks its messages, another
\* replaced the sessions by those of a file with two entries
C39_Witness ==
  \E i, j \in Imports :
    /\ imp[i].pc = "failed"
    /\ HasLackingEntry(imp[i].file)
    /\ imp[j].pc = "done"
    /\ DOMAIN store = {SESSION_1, SESSION_9}
    /\ store[SESSION_9].messages = <<UserTurn(<<"h", "i">>)>>

----------------------------------------------------------------------------
(* Claims about the session controls, under SpecSwitch and SpecSessions *)

\* the send k stores its model turn in this step: saveSession's set of the
\* addMessage called with the model turn takes effect
ModelTurnStored(k) == snd[k].pc = "model_write" /\ snd'[k].pc = "done"

\* C33: the model turn of a send is stored in the session to which the send
\* appended its user turn: the session id with which addMessage is called for
\* the model turn is the id with which it was called for the user turn, and
\* the stored session of that id ends with the model turn.
C33_ModelTurnJoinsUserTurn ==
  [][ \A k \in DOMAIN snd :
        ModelTurnStored(k) =>
          /\ snd[k].sid = snd[k].userSid
          /\ HasSession(store', snd[k].userSid)
          /\ \A msgs \in {store'[snd[k].userSid].messages} :
               msgs # <<>> /\ msgs[Len(msgs)] = ModelTurnOf(k) ]_vars

\* C35: currentSessionId names a session of the stored map.
C35_CurrentSessionExists == currentSessionId \in DOMAIN store

----------------------------------------------------------------------------
(* Claims about the migration from the cedric_* keys, under SpecMigrate *)

\* the migration m completes its write in this step
MigrationWrites(m) == mig[m].pc = "set" /\ mig'[m].pc = "done"

\* the updates that a migration builds from the storage as it is; they
\* copy values under keys that have none
migrationUpdatesNow == migrationUpdates(cedric, store, apiKey, activeId)

\* a migration run on the storage that a migration has just written builds
\* no update
MigrationTwiceWritesNothing ==
  DOMAIN migrationUpdates(cedric,
                          afterSet(migrationUpdatesNow, "bm_sessions", store),
                          afterSet(migrationUpdatesNow, "bm_api_key", apiKey),
                          afterSet(migrationUpdatesNow, "bm_active_session_id", activeId)) = {}

\* C31: a write of the migration changes no bm_* key that has a value when
\* the write takes effect, and running the migration a second time changes
\* nothing.
C31_MigrationKeepsStoredValues ==
  /\ [][ \A m \in DOMAIN mig :
          MigrationWrites(m) =>
            /\ hasSessions(store) => store' = store
            /\ Truthy(apiKey) => apiKey' = apiKey
            /\ Truthy(activeId) => activeId' = activeId ]_vars
  /\ [] MigrationTwiceWritesNothing

====
